---- MODULE Spec2Model ----
(***************************************************************************)
(* The client-side store of HappyCheese (src/src/store.tsx, the provider   *)
(* AppDataProvider of lines 302-978) and the remote tables it mirrors.     *)
(*                                                                         *)
(* The remote backend is a set of tables; every remote call of the store   *)
(* is split in three moments: the store issues the request (the code up to *)
(* an await), the backend serves it (or fails it), and the store resumes   *)
(* after the await.  JavaScript being single threaded, the code between    *)
(* two awaits is one atomic step, and a functional state update            *)
(* setX(prev => f(prev)) acts on the state current at that step.           *)
(***************************************************************************)
EXTENDS Integers, Sequences, FiniteSets, TLC

----------------------------------------------------------------------------
(* Bounds of the model *)

\* calls (and page reloads) issued in one run
MaxCalls == 2
\* calls that may be in flight at the same time
MaxInFlight == 2
\* largest whole quantity a deposit transaction asks for
MaxQty == 2
\* longest list handed to a pure function of the ledger
MaxLen == 3

----------------------------------------------------------------------------
(* Identifiers and strings *)

\* Row identifiers are backend-generated UUIDs: they hold no blank and no
\* "::", so the key `${clientId}::${typeId}` splits back into its two parts.
ClientIds == {"c1", "c2"}
TypeIds == {"t1", "t2"}
ItemIds == {"i1", "i2"}
NewItemIds == {"i2", "i3", "i4"}

\* String.prototype.trim on the strings the model feeds to the store
Trim(s) ==
  CASE s = " c1 " -> "c1"
    [] s = " t1 " -> "t1"
    [] s = " Bob " -> "Bob"
    [] s = " Pot " -> "Pot"
    [] s = "  " -> ""
    [] OTHER -> s

\* a.localeCompare(b) < 0 on the names and labels of the model
NameOrder == <<"Alice", "Bob", "Bocal", "Brie", "Pot", "Seau", "Tomme", "Zoe">>

NameRank(n) ==
  IF \E i \in 1..Len(NameOrder) : NameOrder[i] = n
  THEN CHOOSE i \in 1..Len(NameOrder) : NameOrder[i] = n
  ELSE 0

\* A JavaScript number as the deposit forms can produce it: a finite number
\* counted in halves, or NaN, or Infinity.
Num(h) == [kind |-> "num", halves |-> h]
NaN == [kind |-> "nan", halves |-> 0]
Infinity == [kind |-> "inf", halves |-> 0]

\* Math.floor(Number(q)); NaN and Infinity stay what they are
MathFloor(q) == IF q.kind = "num" THEN Num(2 * (q.halves \div 2)) ELSE q

\* Number.isFinite
IsFinite(q) == q.kind = "num"

----------------------------------------------------------------------------
(* Sequence helpers *)

RECURSIVE SeqMap(_, _)
SeqMap(F(_), s) ==
  IF s = <<>> THEN <<>> ELSE <<F(Head(s))>> \o SeqMap(F, Tail(s))

Range(s) == {s[i] : i \in 1..Len(s)}

\* A JavaScript Map: a sequence of <<key, value>> pairs in insertion order
MapHas(m, k) == \E i \in 1..Len(m) : m[i][1] = k

MapGet(m, k, default) ==
  IF MapHas(m, k)
  THEN m[CHOOSE i \in 1..Len(m) : m[i][1] = k][2]
  ELSE default

\* set on a present key keeps its position, on an absent key appends
MapSet(m, k, v) ==
  IF MapHas(m, k)
  THEN [i \in 1..Len(m) |-> IF m[i][1] = k THEN <<k, v>> ELSE m[i]]
  ELSE Append(m, <<k, v>>)

MapDelete(m, k) == SelectSeq(m, LAMBDA e : e[1] # k)

----------------------------------------------------------------------------
(* Row mappers and the deposit ledger aggregator (pure functions) *)

\* Steps, multiples and order quantities are counted in tenths of a unit.
QUANTITY_INPUT_STEP(qt) ==
  CASE qt = "/pc" -> 10
    [] qt = "/kg" -> 1
    [] qt = "/100g" -> 10
    [] qt = "/500g" -> 5

\* a null string column
NULL == "null"
\* an optional number (number | null | undefined): <<>> or <<n>>
None == <<>>
Some(n) == <<n>>

mapItemFromRow(row) ==
  [id |-> row.id,
   name |-> row.name,
   price |-> row.price,
   quantityType |-> row.quantity_type,
   multipleOf |-> row.multiple_of,
   step |-> IF row.step = None THEN Some(QUANTITY_INPUT_STEP(row.quantity_type))
            ELSE row.step]

mapOrderEntryFromRow(row) ==
  [id |-> row.id,
   itemId |-> IF row.item_id = NULL THEN row.id ELSE row.item_id,
   itemName |-> row.item_name,
   quantity |-> row.quantity,
   quantityType |-> row.quantity_type,
   unitPrice |-> row.unit_price]

\* row carries its joined order_items
mapOrderFromRow(row) ==
  [id |-> row.id,
   customerName |-> row.customer_name,
   clientId |-> row.client_id,
   createdAt |-> row.created_at,
   status |-> row.status,
   entries |-> SeqMap(mapOrderEntryFromRow, row.order_items)]

mapClientFromRow(row) ==
  [id |-> row.id,
   name |-> row.name,
   contact |-> IF row.contact = NULL THEN "" ELSE row.contact]

mapConsignTypeFromRow(row) == [id |-> row.id, label |-> row.label]

ConsignKey(clientId, typeId) == <<clientId, typeId>>

TotalOfEntry(e) == [clientId |-> e[1][1], typeId |-> e[1][2], quantity |-> e[2]]

\* a fold that drops a pair from the map when its running sum passes zero
RECURSIVE FoldMovementRowsDropping(_, _)
FoldMovementRowsDropping(rows, map) ==
  IF rows = <<>> THEN map
  ELSE LET row == Head(rows)
           key == ConsignKey(row.client_id, row.type_id)
           next == MapGet(map, key, 0) + row.quantity
       IN FoldMovementRowsDropping(Tail(rows),
            IF next <= 0 THEN MapDelete(map, key) ELSE MapSet(map, key, next))

RECURSIVE FoldMovementRows(_, _)
FoldMovementRows(rows, map) ==
  IF rows = <<>> THEN map
  ELSE LET row == Head(rows)
           key == ConsignKey(row.client_id, row.type_id)
       IN IF row.client_id = "" \/ row.client_id = NULL
             \/ row.type_id = "" \/ row.type_id = NULL
          THEN FoldMovementRows(Tail(rows), map)
          ELSE FoldMovementRows(Tail(rows),
                 MapSet(map, key, MapGet(map, key, 0) + row.quantity))

buildConsignTotalsFromRows(rows) ==
  SeqMap(TotalOfEntry,
         SelectSeq(FoldMovementRows(rows, <<>>), LAMBDA e : e[2] # 0))

\* an aggregation that keeps the last quantity of a type instead of the sum
RECURSIVE FoldSanitizeLastWins(_, _)
FoldSanitizeLastWins(items, aggregates) ==
  IF items = <<>> THEN aggregates
  ELSE LET item == Head(items)
           trimmedId == Trim(item.typeId)
           numericQuantity == MathFloor(item.quantity)
       IN IF trimmedId = ""
          THEN FoldSanitizeLastWins(Tail(items), aggregates)
          ELSE IF ~IsFinite(numericQuantity) \/ numericQuantity.halves <= 0
          THEN FoldSanitizeLastWins(Tail(items), aggregates)
          ELSE FoldSanitizeLastWins(Tail(items),
                 MapSet(aggregates, trimmedId, numericQuantity.halves \div 2))

RECURSIVE FoldSanitize(_, _)
FoldSanitize(items, aggregates) ==
  IF items = <<>> THEN aggregates
  ELSE LET item == Head(items)
           trimmedId == Trim(item.typeId)
           numericQuantity == MathFloor(item.quantity)
       IN IF trimmedId = ""
          THEN FoldSanitize(Tail(items), aggregates)
          ELSE IF ~IsFinite(numericQuantity) \/ numericQuantity.halves <= 0
          THEN FoldSanitize(Tail(items), aggregates)
          ELSE FoldSanitize(Tail(items),
                 MapSet(aggregates, trimmedId,
                        MapGet(aggregates, trimmedId, 0)
                          + numericQuantity.halves \div 2))

\* the sanitized items carry whole quantities
sanitizeConsignItems(items) ==
  SeqMap(LAMBDA e : [typeId |-> e[1], quantity |-> e[2]],
         FoldSanitize(items, <<>>))

RECURSIVE FoldTotals(_, _)
FoldTotals(totals, map) ==
  IF totals = <<>> THEN map
  ELSE FoldTotals(Tail(totals),
         MapSet(map, ConsignKey(Head(totals).clientId, Head(totals).typeId),
                Head(totals).quantity))

\* an update that drops a pair as soon as its balance is not positive
RECURSIVE FoldDeltasClamped(_, _, _, _)
FoldDeltasClamped(items, clientId, multiplier, map) ==
  IF items = <<>> THEN map
  ELSE LET item == Head(items)
           key == ConsignKey(clientId, item.typeId)
           next == MapGet(map, key, 0) + item.quantity * multiplier
       IN FoldDeltasClamped(Tail(items), clientId, multiplier,
            IF next <= 0 THEN MapDelete(map, key) ELSE MapSet(map, key, next))

RECURSIVE FoldDeltas(_, _, _, _)
FoldDeltas(items, clientId, multiplier, map) ==
  IF items = <<>> THEN map
  ELSE LET item == Head(items)
           key == ConsignKey(clientId, item.typeId)
           current == MapGet(map, key, 0)
           next == current + item.quantity * multiplier
       IN FoldDeltas(Tail(items), clientId, multiplier,
            IF next = 0 THEN MapDelete(map, key) ELSE MapSet(map, key, next))

\* an update that keeps the pairs whose balance came down to zero
RECURSIVE FoldDeltasKeepingZero(_, _, _, _)
FoldDeltasKeepingZero(items, clientId, multiplier, map) ==
  IF items = <<>> THEN map
  ELSE LET item == Head(items)
           key == ConsignKey(clientId, item.typeId)
       IN FoldDeltasKeepingZero(Tail(items), clientId, multiplier,
            MapSet(map, key, MapGet(map, key, 0) + item.quantity * multiplier))

applyConsignDeltasKeepingZero(totals, clientId, items, multiplier) ==
  SeqMap(TotalOfEntry,
         FoldDeltasKeepingZero(items, clientId, multiplier,
                               FoldTotals(totals, <<>>)))

\* an update that keeps the balances of the client of the call only
applyConsignDeltasOwnOnly(totals, clientId, items, multiplier) ==
  SelectSeq(
    SeqMap(TotalOfEntry,
           FoldDeltas(items, clientId, multiplier, FoldTotals(totals, <<>>))),
    LAMBDA e : e.quantity # 0 /\ e.clientId = clientId)

applyConsignDeltas(totals, clientId, items, multiplier) ==
  SelectSeq(
    SeqMap(TotalOfEntry,
           FoldDeltas(items, clientId, multiplier, FoldTotals(totals, <<>>))),
    LAMBDA e : e.quantity # 0)

----------------------------------------------------------------------------
(* State *)

VARIABLES
  \* the remote tables, each a sequence of rows in insertion order
  rItems, rOrders, rOrderItems, rClients, rTypes, rMovements,
  \* the backend's generator of row identifiers and creation timestamps
  clock,
  \* the state of AppDataProvider (useState, lines 564-569)
  items, orders, clients, consignTypes, consignTotals, loading,
  \* the calls in flight, one per slot
  calls,
  \* the five fetches of the initial load
  fetches,
  \* TRUE once the promise of the initial-load effect has settled
  initSettled,
  \* number of calls issued so far
  issued,
  \* the latest settlement of a promise returned to a caller
  settled,
  \* what console.error has received
  logged,
  \* a pure function under examination: its arguments and its result
  probe,
  \* the state of AdminProvider (useState, AdminContext.tsx 60-62)
  user, isAuthLoading, authError,
  \* the account of the identity provider: its user record and its password
  rUser, rPassword,
  \* the session the client library holds, or NULL
  session,
  \* TRUE once loadSession has run to its end
  sessionLoaded,
  \* the calls of AdminProvider in flight, one per slot
  authCalls,
  \* the auth state changes the listener has not been called for yet
  authEvents,
  \* number of calls of AdminProvider issued so far, their latest settlement,
  \* and what console.error has received from them
  authIssued, authSettled, authLogged

remoteVars == <<rItems, rOrders, rOrderItems, rClients, rTypes, rMovements, clock>>
localVars == <<items, orders, clients, consignTypes, consignTotals>>
loadVars == <<loading, fetches, initSettled, logged>>
adminVars == <<user, isAuthLoading, authError, rUser, rPassword, session,
               sessionLoaded, authCalls, authEvents, authIssued, authSettled,
               authLogged>>
vars == <<rItems, rOrders, rOrderItems, rClients, rTypes, rMovements, clock,
          items, orders, clients, consignTypes, consignTotals, loading,
          calls, fetches, initSettled, issued, settled, logged, probe, adminVars>>

\* no function is under examination
NoProbe == [fn |-> "none", done |-> FALSE, arg |-> <<>>, out |-> <<>>]

Slots == 1..MaxInFlight
NoCall == [op |-> "idle", pc |-> "idle"]
FreeSlots == {s \in Slots : calls[s].op = "idle"}
\* a new call takes the lowest free slot
IsFreeSlot(s) == s \in FreeSlots /\ \A t \in FreeSlots : s <= t

Resolved(op) == [op |-> op, ok |-> TRUE, error |-> ""]
Rejected(op, error) == [op |-> op, ok |-> FALSE, error |-> error]
\* the error object of a failed remote call
RemoteError == "remote error"

\* The await of the call in slot s ends: with the backend's answer (ok), or
\* with an error (~ok), which is the backend's refusal or a request that
\* failed on its way and so changed no table.
Settles(s, ok) ==
  IF ok THEN calls[s].pc = "ok" ELSE calls[s].pc \in {"sent", "error"}

FetchNames == {"items", "orders", "clients", "consignTypes", "consignTotals"}

----------------------------------------------------------------------------
(* The remote tables at start *)

Movement(c, t, q) == [client_id |-> c, type_id |-> t, quantity |-> q]

InitItemRows ==
  <<[id |-> "i1", name |-> "Brie", price |-> 1000, quantity_type |-> "/kg",
     multiple_of |-> Some(10), step |-> None]>>
InitOrderRows ==
  <<[id |-> 1, customer_name |-> "Alice", client_id |-> "c1",
     created_at |-> 1, status |-> "nouvelle"]>>
InitOrderItemRows ==
  <<[id |-> 2, order_id |-> 1, item_id |-> "i1", item_name |-> "Brie",
     quantity |-> 20, quantity_type |-> "/kg", unit_price |-> 1000]>>
InitClientRows ==
  <<[id |-> "c1", name |-> "Alice", contact |-> NULL],
    [id |-> "c2", name |-> "Zoe", contact |-> "033"]>>
InitTypeRows ==
  <<[id |-> "t1", label |-> "Pot"], [id |-> "t2", label |-> "Seau"]>>
\* movement logs an earlier session can have left: no balance is negative
InitMovementLogs ==
  {<<Movement("c1", "t1", MaxQty), Movement("c2", "t2", 1)>>}
InitClock == Len(InitOrderRows) + Len(InitOrderItemRows) + 1

----------------------------------------------------------------------------
(* Queries of the backend *)

ByName(a, b) == NameRank(a.name) < NameRank(b.name)
ByLabel(a, b) == NameRank(a.label) < NameRank(b.label)
NewestFirst(a, b) == a.created_at > b.created_at

\* select('*').order('name') on items
SelectItems == SortSeq(rItems, ByName)

\* select('*, order_items(*)').order('created_at', { ascending: false })
JoinOrder(row) ==
  [id |-> row.id, customer_name |-> row.customer_name,
   client_id |-> row.client_id, created_at |-> row.created_at,
   status |-> row.status,
   order_items |-> SelectSeq(rOrderItems, LAMBDA l : l.order_id = row.id)]
SelectOrders == SortSeq(SeqMap(JoinOrder, rOrders), NewestFirst)

SelectClients == SortSeq(rClients, ByName)
SelectConsignTypes == SortSeq(rTypes, ByLabel)
\* select('client_id,type_id,quantity') on consign_movements
SelectMovements == rMovements

\* what each fetch of the initial load makes of the rows it received
FetchResult(name, data) ==
  CASE name = "items" -> SeqMap(mapItemFromRow, data)
    [] name = "orders" -> SeqMap(mapOrderFromRow, data)
    [] name = "clients" -> SeqMap(mapClientFromRow, data)
    [] name = "consignTypes" -> SeqMap(mapConsignTypeFromRow, data)
    [] name = "consignTotals" -> buildConsignTotalsFromRows(data)

QueryOf(name) ==
  CASE name = "items" -> SelectItems
    [] name = "orders" -> SelectOrders
    [] name = "clients" -> SelectClients
    [] name = "consignTypes" -> SelectConsignTypes
    [] name = "consignTotals" -> SelectMovements

----------------------------------------------------------------------------
(* Initial states *)

InitRemote ==
  /\ rItems = InitItemRows
  /\ rOrders = InitOrderRows
  /\ rOrderItems = InitOrderItemRows
  /\ rClients = InitClientRows
  /\ rTypes = InitTypeRows
  /\ rMovements \in InitMovementLogs
  /\ clock = InitClock

\* the place of a user record when there is none (null)
NoUser == [id |-> NULL, email |-> NULL, updated_at |-> 0]

\* nobody is signed in and AdminProvider has nothing in flight
AdminAtRest ==
  /\ user = NoUser /\ isAuthLoading = FALSE /\ authError = NULL
  /\ rUser = NoUser /\ rPassword = "" /\ session = NoUser
  /\ sessionLoaded = TRUE
  /\ authCalls = [s \in Slots |-> NoCall]
  /\ authEvents = <<>>
  /\ authIssued = 0
  /\ authSettled = [op |-> "none", ok |-> TRUE, error |-> ""]
  /\ authLogged = {}

InitControl ==
  /\ calls = [s \in Slots |-> NoCall]
  /\ issued = 0
  /\ settled = [op |-> "none", ok |-> TRUE, error |-> ""]
  /\ logged = {}

\* the provider right after mounting: the effect has issued the five fetches
Init ==
  /\ InitRemote
  /\ InitControl
  /\ probe = NoProbe
  /\ AdminAtRest
  /\ items = <<>> /\ orders = <<>> /\ clients = <<>>
  /\ consignTypes = <<>> /\ consignTotals = <<>>
  /\ loading = TRUE
  /\ fetches = [n \in FetchNames |-> [pc |-> "sent", data |-> <<>>]]
  /\ initSettled = FALSE

\* the provider after an initial load in which every fetch succeeded
LoadedStore ==
  /\ InitRemote
  /\ InitControl
  /\ items = FetchResult("items", SelectItems)
  /\ orders = FetchResult("orders", SelectOrders)
  /\ clients = FetchResult("clients", SelectClients)
  /\ consignTypes = FetchResult("consignTypes", SelectConsignTypes)
  /\ consignTotals = FetchResult("consignTotals", SelectMovements)
  /\ loading = FALSE
  /\ fetches = [n \in FetchNames |-> [pc |-> "done", data |-> <<>>]]
  /\ initSettled = TRUE

InitLoaded == LoadedStore /\ probe = NoProbe /\ AdminAtRest

----------------------------------------------------------------------------
(* Inputs of the deposit transactions *)

\* client identifiers as the forms pass them: padded, blank
RawClientIds == {" c1 ", "  "}

\* Item lists of a transaction: 1 of t1; MaxQty and a half of t1 (padded);
\* 1 of t1 and 1 of t2; t1 twice; nothing that survives sanitizing; nothing.
ConsignItemLists ==
  {<<[typeId |-> "t1", quantity |-> Num(2)]>>,
   <<[typeId |-> " t1 ", quantity |-> Num(2 * MaxQty + 1)]>>,
   <<[typeId |-> "t1", quantity |-> Num(2)],
     [typeId |-> "t2", quantity |-> Num(2)]>>,
   <<[typeId |-> "t1", quantity |-> Num(2)],
     [typeId |-> " t1 ", quantity |-> Num(3)]>>,
   <<[typeId |-> "", quantity |-> Num(2)],
     [typeId |-> "t2", quantity |-> Num(0)]>>,
   <<>>}

ConsignPayloads == [clientId : RawClientIds, items : ConsignItemLists]

----------------------------------------------------------------------------
(* assignConsigns / returnConsigns: recordConsignMovements *)

OpName(multiplier) == IF multiplier = 1 THEN "assignConsigns" ELSE "returnConsigns"

\* the outstanding quantity the return check reads for one type
\* (outstandingMap.get(item.typeId) ?? 0)
Outstanding(totals, clientId, typeId) ==
  LET own == SelectSeq(totals, LAMBDA e : e.clientId = clientId /\ e.typeId = typeId)
  IN IF own = <<>> THEN 0 ELSE own[Len(own)].quantity

\* a return check that looks at the first item only
ExceedsOutstandingFirstOnly(totals, clientId, sanitizedItems) ==
  sanitizedItems[1].quantity
    > Outstanding(totals, clientId, sanitizedItems[1].typeId)

\* some item of a return asks for more than is outstanding
ExceedsOutstanding(totals, clientId, sanitizedItems) ==
  \E i \in 1..Len(sanitizedItems) :
    sanitizedItems[i].quantity
      > Outstanding(totals, clientId, sanitizedItems[i].typeId)

\* rows that carry the quantities without the sign of the operation
payloadRowsUnsigned(clientId, sanitizedItems, multiplier) ==
  SeqMap(LAMBDA item : Movement(clientId, item.typeId, item.quantity),
         sanitizedItems)

payloadRows(clientId, sanitizedItems, multiplier) ==
  SeqMap(LAMBDA item : Movement(clientId, item.typeId, item.quantity * multiplier),
         sanitizedItems)

\* a transaction that checks neither the client nor the items
recordConsignMovementsUnvalidated(s, payload, multiplier) ==
  LET clientId == Trim(payload.clientId)
      sanitizedItems == sanitizeConsignItems(payload.items)
      op == OpName(multiplier)
  IN /\ issued < MaxCalls
     /\ IsFreeSlot(s)
     /\ issued' = issued + 1
     /\ IF multiplier = -1
           /\ ExceedsOutstanding(consignTotals, clientId, sanitizedItems)
        THEN /\ settled' = Rejected(op,
                  "Quantite retournee superieure aux consignes du client.")
             /\ UNCHANGED calls
        ELSE /\ calls' = [calls EXCEPT ![s] =
                 [op |-> op, pc |-> "sent", clientId |-> clientId,
                  items |-> sanitizedItems, multiplier |-> multiplier]]
             /\ UNCHANGED settled
     /\ UNCHANGED <<remoteVars, localVars, loadVars, probe, adminVars>>

\* The code up to the await of the insert.  consignTotals is the value the
\* callback closed over, which is the state at the time of the call.
recordConsignMovements(s, payload, multiplier) ==
  LET clientId == Trim(payload.clientId)
      sanitizedItems == sanitizeConsignItems(payload.items)
      op == OpName(multiplier)
      Throw(msg) ==
        /\ settled' = Rejected(op, msg)
        /\ UNCHANGED calls
  IN /\ issued < MaxCalls
     /\ IsFreeSlot(s)
     /\ issued' = issued + 1
     /\ IF clientId = ""
        THEN Throw("Selectionnez un client.")
        ELSE IF sanitizedItems = <<>>
        THEN Throw("Ajoutez au moins une consigne a traiter.")
        ELSE IF multiplier = -1
                /\ ExceedsOutstanding(consignTotals, clientId, sanitizedItems)
        THEN Throw("Quantite retournee superieure aux consignes du client.")
        ELSE /\ calls' = [calls EXCEPT ![s] =
                 [op |-> op, pc |-> "sent", clientId |-> clientId,
                  items |-> sanitizedItems, multiplier |-> multiplier]]
             /\ UNCHANGED settled
     /\ UNCHANGED <<remoteVars, localVars, loadVars, probe, adminVars>>

AssignConsigns(s, payload) == recordConsignMovements(s, payload, 1)

ReturnConsigns(s, payload) == recordConsignMovements(s, payload, -1)

IsRecordCall(s) == calls[s].op \in {"assignConsigns", "returnConsigns"}

\* an insert that replaces the rows of the same client and type
InsertMovementsReplacing(s) ==
  /\ IsRecordCall(s) /\ calls[s].pc = "sent"
  /\ LET rows == payloadRows(calls[s].clientId, calls[s].items, calls[s].multiplier)
     IN rMovements' =
          SelectSeq(rMovements,
                    LAMBDA m : \A r \in Range(rows) :
                                 m.client_id # r.client_id \/ m.type_id # r.type_id)
            \o rows
  /\ calls' = [calls EXCEPT ![s].pc = "ok"]
  /\ UNCHANGED <<rItems, rOrders, rOrderItems, rClients, rTypes, clock,
                 localVars, loadVars, probe, adminVars, issued, settled>>

\* the backend serves from('consign_movements').insert(payloadRows)
InsertMovements(s) ==
  /\ IsRecordCall(s) /\ calls[s].pc = "sent"
  /\ rMovements' = rMovements
       \o payloadRows(calls[s].clientId, calls[s].items, calls[s].multiplier)
  /\ calls' = [calls EXCEPT ![s].pc = "ok"]
  /\ UNCHANGED <<rItems, rOrders, rOrderItems, rClients, rTypes, clock,
                 localVars, loadVars, probe, adminVars, issued, settled>>

\* a transaction that adds to the balance whatever its direction
RecordConsignMovementsResumeAdding(s, ok) ==
  /\ IsRecordCall(s) /\ Settles(s, ok)
  /\ IF ~ok
     THEN /\ settled' = Rejected(calls[s].op, RemoteError)
          /\ UNCHANGED consignTotals
     ELSE /\ consignTotals' = applyConsignDeltas(consignTotals, calls[s].clientId,
                                                 calls[s].items, 1)
          /\ settled' = Resolved(calls[s].op)
  /\ calls' = [calls EXCEPT ![s] = NoCall]
  /\ UNCHANGED <<remoteVars, items, orders, clients, consignTypes, loadVars, probe, adminVars, issued>>

\* the code after the await of the insert
\* a transaction that puts its own quantities in the place of the balances
RecordConsignMovementsResumeReplacing(s, ok) ==
  /\ IsRecordCall(s) /\ Settles(s, ok)
  /\ IF ~ok
     THEN /\ settled' = Rejected(calls[s].op, RemoteError)
          /\ UNCHANGED consignTotals
     ELSE /\ consignTotals' =
               applyConsignDeltas(
                 SelectSeq(consignTotals,
                           LAMBDA e : \/ e.clientId # calls[s].clientId
                                      \/ \A item \in Range(calls[s].items) :
                                           item.typeId # e.typeId),
                 calls[s].clientId, calls[s].items, calls[s].multiplier)
          /\ settled' = Resolved(calls[s].op)
  /\ calls' = [calls EXCEPT ![s] = NoCall]
  /\ UNCHANGED <<remoteVars, items, orders, clients, consignTypes, loadVars, probe, adminVars, issued>>

RecordConsignMovementsResume(s, ok) ==
  /\ IsRecordCall(s) /\ Settles(s, ok)
  /\ IF ~ok
     THEN /\ settled' = Rejected(calls[s].op, RemoteError)
          /\ UNCHANGED consignTotals
     ELSE /\ consignTotals' = applyConsignDeltas(consignTotals, calls[s].clientId,
                                                 calls[s].items, calls[s].multiplier)
          /\ settled' = Resolved(calls[s].op)
  /\ calls' = [calls EXCEPT ![s] = NoCall]
  /\ UNCHANGED <<remoteVars, items, orders, clients, consignTypes, loadVars, probe, adminVars, issued>>

----------------------------------------------------------------------------
(* removeClient *)

RawRemoveIds == {" c1 ", "c2", "  "}

RemoveClient(s, id) ==
  LET clientId == Trim(id)
  IN /\ issued < MaxCalls
     /\ IsFreeSlot(s)
     /\ issued' = issued + 1
     /\ IF clientId = ""
        THEN /\ settled' = Rejected("removeClient", "Client introuvable.")
             /\ UNCHANGED calls
        ELSE /\ calls' = [calls EXCEPT ![s] =
                 [op |-> "removeClient", pc |-> "sent", step |-> 1,
                  clientId |-> clientId]]
             /\ UNCHANGED settled
     /\ UNCHANGED <<remoteVars, localVars, loadVars, probe, adminVars>>

IsRemoveClientStep(s, n) ==
  calls[s].op = "removeClient" /\ calls[s].pc = "sent" /\ calls[s].step = n

\* a first step that deletes the orders of the client
ClearOrdersClientDeleting(s) ==
  /\ IsRemoveClientStep(s, 1)
  /\ rOrders' = SelectSeq(rOrders, LAMBDA r : r.client_id # calls[s].clientId)
  /\ calls' = [calls EXCEPT ![s].pc = "ok"]
  /\ UNCHANGED <<rItems, rOrderItems, rClients, rTypes, rMovements, clock,
                 localVars, loadVars, probe, adminVars, issued, settled>>

\* from('orders').update({ client_id: null }).eq('client_id', clientId)
ClearOrdersClient(s) ==
  /\ IsRemoveClientStep(s, 1)
  /\ rOrders' = [i \in 1..Len(rOrders) |->
         IF rOrders[i].client_id = calls[s].clientId
         THEN [rOrders[i] EXCEPT !.client_id = NULL]
         ELSE rOrders[i]]
  /\ calls' = [calls EXCEPT ![s].pc = "ok"]
  /\ UNCHANGED <<rItems, rOrderItems, rClients, rTypes, rMovements, clock,
                 localVars, loadVars, probe, adminVars, issued, settled>>

\* from('consign_movements').delete().eq('client_id', clientId)
DeleteMovementsOfClient(s) ==
  /\ IsRemoveClientStep(s, 2)
  /\ rMovements' = SelectSeq(rMovements,
                             LAMBDA m : m.client_id # calls[s].clientId)
  /\ calls' = [calls EXCEPT ![s].pc = "ok"]
  /\ UNCHANGED <<rItems, rOrders, rOrderItems, rClients, rTypes, clock,
                 localVars, loadVars, probe, adminVars, issued, settled>>

\* a client delete that the backend receives together with the first request
DeleteClientEarly(s) ==
  /\ IsRemoveClientStep(s, 1)
  /\ rClients' = SelectSeq(rClients, LAMBDA c : c.id # calls[s].clientId)
  /\ calls' = [calls EXCEPT ![s].pc = "ok"]
  /\ UNCHANGED <<rItems, rOrders, rOrderItems, rTypes, rMovements, clock,
                 localVars, loadVars, probe, adminVars, issued, settled>>

\* from('clients').delete().eq('id', clientId)
DeleteClient(s) ==
  /\ IsRemoveClientStep(s, 3)
  /\ rClients' = SelectSeq(rClients, LAMBDA c : c.id # calls[s].clientId)
  /\ calls' = [calls EXCEPT ![s].pc = "ok"]
  /\ UNCHANGED <<rItems, rOrders, rOrderItems, rTypes, rMovements, clock,
                 localVars, loadVars, probe, adminVars, issued, settled>>

\* a resume that clears the client from the collections whatever the answer
RemoveClientResumeLocalFirst(s, ok) ==
  LET clientId == calls[s].clientId
  IN /\ calls[s].op = "removeClient" /\ Settles(s, ok)
     /\ clients' = SelectSeq(clients, LAMBDA c : c.id # clientId)
     /\ consignTotals' = SelectSeq(consignTotals,
                                   LAMBDA e : e.clientId # clientId)
     /\ UNCHANGED orders
     /\ IF ~ok
        THEN /\ settled' = Rejected("removeClient", RemoteError)
             /\ calls' = [calls EXCEPT ![s] = NoCall]
        ELSE IF calls[s].step < 3
        THEN /\ calls' = [calls EXCEPT ![s].pc = "sent", ![s].step = @ + 1]
             /\ UNCHANGED settled
        ELSE /\ settled' = Resolved("removeClient")
             /\ calls' = [calls EXCEPT ![s] = NoCall]
     /\ UNCHANGED <<remoteVars, items, consignTypes, loadVars, probe, adminVars, issued>>

\* the code after each of the three awaits
RemoveClientResume(s, ok) ==
  LET clientId == calls[s].clientId
  IN /\ calls[s].op = "removeClient" /\ Settles(s, ok)
     /\ IF ~ok
        THEN /\ settled' = Rejected("removeClient", RemoteError)
             /\ calls' = [calls EXCEPT ![s] = NoCall]
             /\ UNCHANGED <<clients, consignTotals, orders>>
        ELSE IF calls[s].step < 3
        THEN /\ calls' = [calls EXCEPT ![s].pc = "sent", ![s].step = @ + 1]
             /\ UNCHANGED <<settled, clients, consignTotals, orders>>
        ELSE /\ clients' = SelectSeq(clients, LAMBDA c : c.id # clientId)
             /\ consignTotals' = SelectSeq(consignTotals,
                                           LAMBDA e : e.clientId # clientId)
             /\ orders' = [i \in 1..Len(orders) |->
                             IF orders[i].clientId = clientId
                             THEN [orders[i] EXCEPT !.clientId = NULL]
                             ELSE orders[i]]
             /\ settled' = Resolved("removeClient")
             /\ calls' = [calls EXCEPT ![s] = NoCall]
     /\ UNCHANGED <<remoteVars, items, consignTypes, loadVars, probe, adminVars, issued>>

----------------------------------------------------------------------------
(* removeConsignType *)

RawRemoveTypeIds == {" t1 ", "t2", "  "}

RemoveConsignType(s, id) ==
  LET typeId == Trim(id)
  IN /\ issued < MaxCalls
     /\ IsFreeSlot(s)
     /\ issued' = issued + 1
     /\ IF typeId = ""
        THEN /\ settled' = Rejected("removeConsignType", "Type introuvable.")
             /\ UNCHANGED calls
        ELSE /\ calls' = [calls EXCEPT ![s] =
                 [op |-> "removeConsignType", pc |-> "sent", step |-> 1,
                  typeId |-> typeId]]
             /\ UNCHANGED settled
     /\ UNCHANGED <<remoteVars, localVars, loadVars, probe, adminVars>>

IsRemoveTypeStep(s, n) ==
  calls[s].op = "removeConsignType" /\ calls[s].pc = "sent" /\ calls[s].step = n

\* from('consign_movements').delete().eq('type_id', typeId)
DeleteMovementsOfType(s) ==
  /\ IsRemoveTypeStep(s, 1)
  /\ rMovements' = SelectSeq(rMovements,
                             LAMBDA m : m.type_id # calls[s].typeId)
  /\ calls' = [calls EXCEPT ![s].pc = "ok"]
  /\ UNCHANGED <<rItems, rOrders, rOrderItems, rClients, rTypes, clock,
                 localVars, loadVars, probe, adminVars, issued, settled>>

\* from('consign_types').delete().eq('id', typeId)
DeleteConsignType(s) ==
  /\ IsRemoveTypeStep(s, 2)
  /\ rTypes' = SelectSeq(rTypes, LAMBDA t : t.id # calls[s].typeId)
  /\ calls' = [calls EXCEPT ![s].pc = "ok"]
  /\ UNCHANGED <<rItems, rOrders, rOrderItems, rClients, rMovements, clock,
                 localVars, loadVars, probe, adminVars, issued, settled>>

\* a removal that updates the collections once the movements are deleted
RemoveConsignTypeResumeEager(s, ok) ==
  LET typeId == calls[s].typeId
  IN /\ calls[s].op = "removeConsignType" /\ Settles(s, ok)
     /\ IF ~ok
        THEN /\ settled' = Rejected("removeConsignType", RemoteError)
             /\ calls' = [calls EXCEPT ![s] = NoCall]
             /\ UNCHANGED <<consignTypes, consignTotals>>
        ELSE /\ consignTypes' = SelectSeq(consignTypes, LAMBDA t : t.id # typeId)
             /\ consignTotals' = SelectSeq(consignTotals,
                                           LAMBDA e : e.typeId # typeId)
             /\ IF calls[s].step < 2
                THEN /\ calls' = [calls EXCEPT ![s].pc = "sent", ![s].step = @ + 1]
                     /\ UNCHANGED settled
                ELSE /\ settled' = Resolved("removeConsignType")
                     /\ calls' = [calls EXCEPT ![s] = NoCall]
     /\ UNCHANGED <<remoteVars, items, orders, clients, loadVars, probe, adminVars, issued>>

\* the code after each of the two awaits
RemoveConsignTypeResume(s, ok) ==
  LET typeId == calls[s].typeId
  IN /\ calls[s].op = "removeConsignType" /\ Settles(s, ok)
     /\ IF ~ok
        THEN /\ settled' = Rejected("removeConsignType", RemoteError)
             /\ calls' = [calls EXCEPT ![s] = NoCall]
             /\ UNCHANGED <<consignTypes, consignTotals>>
        ELSE IF calls[s].step < 2
        THEN /\ calls' = [calls EXCEPT ![s].pc = "sent", ![s].step = @ + 1]
             /\ UNCHANGED <<settled, consignTypes, consignTotals>>
        ELSE /\ consignTypes' = SelectSeq(consignTypes, LAMBDA t : t.id # typeId)
             /\ consignTotals' = SelectSeq(consignTotals,
                                           LAMBDA e : e.typeId # typeId)
             /\ settled' = Resolved("removeConsignType")
             /\ calls' = [calls EXCEPT ![s] = NoCall]
     /\ UNCHANGED <<remoteVars, items, orders, clients, loadVars, probe, adminVars, issued>>

----------------------------------------------------------------------------
(* addItem / updateItem / removeItem *)

normalizeItemPayload(payload) ==
  [name |-> payload.name,
   price |-> payload.price,
   quantity_type |-> payload.quantityType,
   multiple_of |-> payload.multipleOf,
   step |-> IF payload.step # None /\ payload.step[1] > 0
            THEN payload.step
            ELSE Some(QUANTITY_INPUT_STEP(payload.quantityType))]

ItemPayloads ==
  {[name |-> "Tomme", price |-> 500, quantityType |-> "/pc",
    multipleOf |-> None, step |-> None],
   [name |-> "Brie", price |-> 1200, quantityType |-> "/500g",
    multipleOf |-> Some(0), step |-> Some(0)],
   [name |-> "Tomme", price |-> 500, quantityType |-> "/kg",
    multipleOf |-> Some(5), step |-> Some(2)]}

RowOfItem(id, dbPayload) ==
  [id |-> id, name |-> dbPayload.name, price |-> dbPayload.price,
   quantity_type |-> dbPayload.quantity_type,
   multiple_of |-> dbPayload.multiple_of, step |-> dbPayload.step]

AddItem(s, payload) ==
  /\ issued < MaxCalls
  /\ IsFreeSlot(s)
  /\ issued' = issued + 1
  /\ calls' = [calls EXCEPT ![s] =
       [op |-> "addItem", pc |-> "sent",
        dbPayload |-> normalizeItemPayload(payload), data |-> <<>>]]
  /\ UNCHANGED <<remoteVars, localVars, loadVars, probe, adminVars, settled>>

\* from('items').insert(dbPayload).select('*').single()
InsertItem(s) ==
  /\ calls[s].op = "addItem" /\ calls[s].pc = "sent"
  /\ \E id \in NewItemIds : \A r \in Range(rItems) : r.id # id
  /\ LET id == CHOOSE id \in NewItemIds : \A r \in Range(rItems) : r.id # id
         row == RowOfItem(id, calls[s].dbPayload)
     IN /\ rItems' = Append(rItems, row)
        /\ calls' = [calls EXCEPT ![s].pc = "ok", ![s].data = row]
  /\ UNCHANGED <<rOrders, rOrderItems, rClients, rTypes, rMovements, clock,
                 localVars, loadVars, probe, adminVars, issued, settled>>

\* an addItem that puts the new product in front
AddItemResumePrepending(s, ok) ==
  /\ calls[s].op = "addItem" /\ Settles(s, ok)
  /\ IF ~ok
     THEN /\ settled' = Rejected("addItem", RemoteError)
          /\ UNCHANGED items
     ELSE /\ items' = <<mapItemFromRow(calls[s].data)>> \o items
          /\ settled' = Resolved("addItem")
  /\ calls' = [calls EXCEPT ![s] = NoCall]
  /\ UNCHANGED <<remoteVars, orders, clients, consignTypes, consignTotals,
                 loadVars, probe, adminVars, issued>>

AddItemResume(s, ok) ==
  /\ calls[s].op = "addItem" /\ Settles(s, ok)
  /\ IF ~ok
     THEN /\ settled' = Rejected("addItem", RemoteError)
          /\ UNCHANGED items
     ELSE /\ items' = Append(items, mapItemFromRow(calls[s].data))
          /\ settled' = Resolved("addItem")
  /\ calls' = [calls EXCEPT ![s] = NoCall]
  /\ UNCHANGED <<remoteVars, orders, clients, consignTypes, consignTotals,
                 loadVars, probe, adminVars, issued>>

UpdateItem(s, id, payload) ==
  /\ issued < MaxCalls
  /\ IsFreeSlot(s)
  /\ issued' = issued + 1
  /\ calls' = [calls EXCEPT ![s] =
       [op |-> "updateItem", pc |-> "sent", id |-> id,
        dbPayload |-> normalizeItemPayload(payload), data |-> <<>>]]
  /\ UNCHANGED <<remoteVars, localVars, loadVars, probe, adminVars, settled>>

\* from('items').update(dbPayload).eq('id', id).select('*').single():
\* an error when no row has that id
UpdateItemRow(s) ==
  /\ calls[s].op = "updateItem" /\ calls[s].pc = "sent"
  /\ IF \E r \in Range(rItems) : r.id = calls[s].id
     THEN LET row == RowOfItem(calls[s].id, calls[s].dbPayload)
          IN /\ rItems' = [i \in 1..Len(rItems) |->
                             IF rItems[i].id = calls[s].id THEN row ELSE rItems[i]]
             /\ calls' = [calls EXCEPT ![s].pc = "ok", ![s].data = row]
     ELSE /\ calls' = [calls EXCEPT ![s].pc = "error"]
          /\ UNCHANGED rItems
  /\ UNCHANGED <<rOrders, rOrderItems, rClients, rTypes, rMovements, clock,
                 localVars, loadVars, probe, adminVars, issued, settled>>

\* an updateItem that also rewrites the line entries naming the product
UpdateItemResumeCascading(s, ok) ==
  /\ calls[s].op = "updateItem" /\ Settles(s, ok)
  /\ IF ~ok
     THEN /\ settled' = Rejected("updateItem", RemoteError)
          /\ UNCHANGED <<items, orders>>
     ELSE /\ items' = [i \in 1..Len(items) |->
                         IF items[i].id = calls[s].id
                         THEN mapItemFromRow(calls[s].data)
                         ELSE items[i]]
          /\ orders' = [i \in 1..Len(orders) |->
               [orders[i] EXCEPT !.entries =
                  [j \in 1..Len(@) |->
                     IF @[j].itemId = calls[s].id
                     THEN [@[j] EXCEPT !.itemName = calls[s].data.name,
                                       !.unitPrice = calls[s].data.price]
                     ELSE @[j]]]]
          /\ settled' = Resolved("updateItem")
  /\ calls' = [calls EXCEPT ![s] = NoCall]
  /\ UNCHANGED <<remoteVars, clients, consignTypes, consignTotals,
                 loadVars, probe, adminVars, issued>>

UpdateItemResume(s, ok) ==
  /\ calls[s].op = "updateItem" /\ Settles(s, ok)
  /\ IF ~ok
     THEN /\ settled' = Rejected("updateItem", RemoteError)
          /\ UNCHANGED items
     ELSE /\ items' = [i \in 1..Len(items) |->
                         IF items[i].id = calls[s].id
                         THEN mapItemFromRow(calls[s].data)
                         ELSE items[i]]
          /\ settled' = Resolved("updateItem")
  /\ calls' = [calls EXCEPT ![s] = NoCall]
  /\ UNCHANGED <<remoteVars, orders, clients, consignTypes, consignTotals,
                 loadVars, probe, adminVars, issued>>

RemoveItem(s, id) ==
  /\ issued < MaxCalls
  /\ IsFreeSlot(s)
  /\ issued' = issued + 1
  /\ calls' = [calls EXCEPT ![s] = [op |-> "removeItem", pc |-> "sent", id |-> id]]
  /\ UNCHANGED <<remoteVars, localVars, loadVars, probe, adminVars, settled>>

\* from('items').delete().eq('id', id); the line items that referenced the
\* product keep their snapshot and lose the reference (item_id is nullable)
DeleteItem(s) ==
  /\ calls[s].op = "removeItem" /\ calls[s].pc = "sent"
  /\ rItems' = SelectSeq(rItems, LAMBDA r : r.id # calls[s].id)
  /\ rOrderItems' = [i \in 1..Len(rOrderItems) |->
                       IF rOrderItems[i].item_id = calls[s].id
                       THEN [rOrderItems[i] EXCEPT !.item_id = NULL]
                       ELSE rOrderItems[i]]
  /\ calls' = [calls EXCEPT ![s].pc = "ok"]
  /\ UNCHANGED <<rOrders, rClients, rTypes, rMovements, clock,
                 localVars, loadVars, probe, adminVars, issued, settled>>

\* a removeItem that filters the collection whatever the backend answered
RemoveItemResumeAlways(s, ok) ==
  /\ calls[s].op = "removeItem" /\ Settles(s, ok)
  /\ items' = SelectSeq(items, LAMBDA it : it.id # calls[s].id)
  /\ settled' = IF ok THEN Resolved("removeItem")
                ELSE Rejected("removeItem", RemoteError)
  /\ calls' = [calls EXCEPT ![s] = NoCall]
  /\ UNCHANGED <<remoteVars, orders, clients, consignTypes, consignTotals,
                 loadVars, probe, adminVars, issued>>

RemoveItemResume(s, ok) ==
  /\ calls[s].op = "removeItem" /\ Settles(s, ok)
  /\ IF ~ok
     THEN /\ settled' = Rejected("removeItem", RemoteError)
          /\ UNCHANGED items
     ELSE /\ items' = SelectSeq(items, LAMBDA it : it.id # calls[s].id)
          /\ settled' = Resolved("removeItem")
  /\ calls' = [calls EXCEPT ![s] = NoCall]
  /\ UNCHANGED <<remoteVars, orders, clients, consignTypes, consignTotals,
                 loadVars, probe, adminVars, issued>>

----------------------------------------------------------------------------
(* addOrder *)

\* "ghost" is no product of the catalog
OrderEntryLists ==
  {<<>>,
   <<[itemId |-> "i1", quantity |-> 20]>>,
   <<[itemId |-> "ghost", quantity |-> 10]>>,
   <<[itemId |-> "i1", quantity |-> 10], [itemId |-> "ghost", quantity |-> 10]>>}

OrderPayloads ==
  [clientId : {"c1"}, customerName : {"Alice"}, entries : OrderEntryLists]

\* an addOrder without the check of the entries' length
AddOrderUnchecked(s, payload) ==
  /\ issued < MaxCalls
  /\ IsFreeSlot(s)
  /\ issued' = issued + 1
  /\ calls' = [calls EXCEPT ![s] =
       [op |-> "addOrder", pc |-> "sent", step |-> 1,
        payload |-> payload, catalog |-> items,
        order |-> <<>>, rows |-> <<>>]]
  /\ UNCHANGED <<remoteVars, localVars, loadVars, probe, adminVars, settled>>

\* the code up to the await of the header insert; catalog is the items the
\* function closed over, read again after the await
AddOrder(s, payload) ==
  /\ issued < MaxCalls
  /\ IsFreeSlot(s)
  /\ issued' = issued + 1
  /\ IF Len(payload.entries) = 0
     THEN /\ settled' = Rejected("addOrder", "Impossible de creer une commande vide.")
          /\ UNCHANGED calls
     ELSE /\ calls' = [calls EXCEPT ![s] =
              [op |-> "addOrder", pc |-> "sent", step |-> 1,
               payload |-> payload, catalog |-> items,
               order |-> <<>>, rows |-> <<>>]]
          /\ UNCHANGED settled
  /\ UNCHANGED <<remoteVars, localVars, loadVars, probe, adminVars>>

\* from('orders').insert({...}).select('*').single()
InsertOrder(s) ==
  /\ calls[s].op = "addOrder" /\ calls[s].pc = "sent" /\ calls[s].step = 1
  /\ LET row == [id |-> clock,
                 customer_name |-> calls[s].payload.customerName,
                 client_id |-> calls[s].payload.clientId,
                 created_at |-> clock,
                 status |-> "nouvelle"]
     IN /\ rOrders' = Append(rOrders, row)
        /\ clock' = clock + 1
        /\ calls' = [calls EXCEPT ![s].pc = "ok", ![s].order = <<row>>]
  /\ UNCHANGED <<rItems, rOrderItems, rClients, rTypes, rMovements,
                 localVars, loadVars, probe, adminVars, issued, settled>>

FindItem(catalog, itemId) == SelectSeq(catalog, LAMBDA it : it.id = itemId)

\* payload.entries.map(...): the rows to insert
orderItemsPayload(order, catalog, entries) ==
  SeqMap(LAMBDA entry :
           LET item == FindItem(catalog, entry.itemId)[1]
           IN [order_id |-> order.id,
               item_id |-> item.id,
               item_name |-> item.name,
               quantity |-> entry.quantity,
               quantity_type |-> item.quantityType,
               unit_price |-> item.price],
         entries)

RECURSIVE WithIds(_, _)
WithIds(rows, firstId) ==
  IF rows = <<>> THEN <<>>
  ELSE <<[id |-> firstId, order_id |-> Head(rows).order_id,
          item_id |-> Head(rows).item_id, item_name |-> Head(rows).item_name,
          quantity |-> Head(rows).quantity,
          quantity_type |-> Head(rows).quantity_type,
          unit_price |-> Head(rows).unit_price]>>
       \o WithIds(Tail(rows), firstId + 1)

\* from('order_items').insert(orderItemsPayload).select('*')
InsertOrderItems(s) ==
  /\ calls[s].op = "addOrder" /\ calls[s].pc = "sent" /\ calls[s].step = 2
  /\ LET inserted == WithIds(calls[s].rows, clock)
     IN /\ rOrderItems' = rOrderItems \o inserted
        /\ clock' = clock + Len(inserted)
        /\ calls' = [calls EXCEPT ![s].pc = "ok", ![s].rows = inserted]
  /\ UNCHANGED <<rItems, rOrders, rClients, rTypes, rMovements,
                 localVars, loadVars, probe, adminVars, issued, settled>>

\* the code after each of the two awaits
AddOrderResume(s, ok) ==
  LET c == calls[s]
      unknown == \E i \in 1..Len(c.payload.entries) :
                   FindItem(c.catalog, c.payload.entries[i].itemId) = <<>>
  IN /\ c.op = "addOrder" /\ Settles(s, ok)
     /\ IF ~ok
        THEN /\ settled' = Rejected("addOrder", RemoteError)
             /\ calls' = [calls EXCEPT ![s] = NoCall]
             /\ UNCHANGED orders
        ELSE IF c.step = 1
        THEN IF unknown
             THEN /\ settled' = Rejected("addOrder", "Produit introuvable")
                  /\ calls' = [calls EXCEPT ![s] = NoCall]
                  /\ UNCHANGED orders
             ELSE /\ calls' = [calls EXCEPT ![s].pc = "sent", ![s].step = 2,
                       ![s].rows = orderItemsPayload(c.order[1], c.catalog,
                                                     c.payload.entries)]
                  /\ UNCHANGED <<settled, orders>>
        ELSE /\ orders' = <<mapOrderFromRow(
                   [id |-> c.order[1].id,
                    customer_name |-> c.order[1].customer_name,
                    client_id |-> c.order[1].client_id,
                    created_at |-> c.order[1].created_at,
                    status |-> c.order[1].status,
                    order_items |-> c.rows])>> \o orders
             /\ settled' = Resolved("addOrder")
             /\ calls' = [calls EXCEPT ![s] = NoCall]
     /\ UNCHANGED <<remoteVars, items, clients, consignTypes, consignTotals,
                    loadVars, probe, adminVars, issued>>

----------------------------------------------------------------------------
(* updateOrderStatus / removeOrder *)

OrderStatuses ==
  {"nouvelle", "en_cours", "livree_pas_payee", "livree_payee", "non_livree_payee"}

\* order identifiers a caller may pass: the initial order, an order created
\* in this run, an identifier no order ever had
OrderIdInputs == {1, InitClock, 0}

UpdateOrderStatus(s, id, status) ==
  /\ issued < MaxCalls
  /\ IsFreeSlot(s)
  /\ issued' = issued + 1
  /\ calls' = [calls EXCEPT ![s] =
       [op |-> "updateOrderStatus", pc |-> "sent", id |-> id, status |-> status]]
  /\ UNCHANGED <<remoteVars, localVars, loadVars, probe, adminVars, settled>>

\* from('orders').update({ status }).eq('id', id)
UpdateOrderStatusRow(s) ==
  /\ calls[s].op = "updateOrderStatus" /\ calls[s].pc = "sent"
  /\ rOrders' = [i \in 1..Len(rOrders) |->
                   IF rOrders[i].id = calls[s].id
                   THEN [rOrders[i] EXCEPT !.status = calls[s].status]
                   ELSE rOrders[i]]
  /\ calls' = [calls EXCEPT ![s].pc = "ok"]
  /\ UNCHANGED <<rItems, rOrderItems, rClients, rTypes, rMovements, clock,
                 localVars, loadVars, probe, adminVars, issued, settled>>

\* a status change that moves the changed order to the front
UpdateOrderStatusResumeMoving(s, ok) ==
  /\ calls[s].op = "updateOrderStatus" /\ Settles(s, ok)
  /\ IF ~ok
     THEN /\ settled' = Rejected("updateOrderStatus", RemoteError)
          /\ UNCHANGED orders
     ELSE /\ orders' =
               SeqMap(LAMBDA o : [o EXCEPT !.status = calls[s].status],
                      SelectSeq(orders, LAMBDA o : o.id = calls[s].id))
                 \o SelectSeq(orders, LAMBDA o : o.id # calls[s].id)
          /\ settled' = Resolved("updateOrderStatus")
  /\ calls' = [calls EXCEPT ![s] = NoCall]
  /\ UNCHANGED <<remoteVars, items, clients, consignTypes, consignTotals,
                 loadVars, probe, adminVars, issued>>

UpdateOrderStatusResume(s, ok) ==
  /\ calls[s].op = "updateOrderStatus" /\ Settles(s, ok)
  /\ IF ~ok
     THEN /\ settled' = Rejected("updateOrderStatus", RemoteError)
          /\ UNCHANGED orders
     ELSE /\ orders' = [i \in 1..Len(orders) |->
                          IF orders[i].id = calls[s].id
                          THEN [orders[i] EXCEPT !.status = calls[s].status]
                          ELSE orders[i]]
          /\ settled' = Resolved("updateOrderStatus")
  /\ calls' = [calls EXCEPT ![s] = NoCall]
  /\ UNCHANGED <<remoteVars, items, clients, consignTypes, consignTotals,
                 loadVars, probe, adminVars, issued>>

RemoveOrder(s, id) ==
  /\ issued < MaxCalls
  /\ IsFreeSlot(s)
  /\ issued' = issued + 1
  /\ calls' = [calls EXCEPT ![s] = [op |-> "removeOrder", pc |-> "sent", id |-> id]]
  /\ UNCHANGED <<remoteVars, localVars, loadVars, probe, adminVars, settled>>

\* from('orders').delete().eq('id', id); the line items go with their order
DeleteOrder(s) ==
  /\ calls[s].op = "removeOrder" /\ calls[s].pc = "sent"
  /\ rOrders' = SelectSeq(rOrders, LAMBDA r : r.id # calls[s].id)
  /\ rOrderItems' = SelectSeq(rOrderItems,
                              LAMBDA l : l.order_id # calls[s].id)
  /\ calls' = [calls EXCEPT ![s].pc = "ok"]
  /\ UNCHANGED <<rItems, rClients, rTypes, rMovements, clock,
                 localVars, loadVars, probe, adminVars, issued, settled>>

RemoveOrderResume(s, ok) ==
  /\ calls[s].op = "removeOrder" /\ Settles(s, ok)
  /\ IF ~ok
     THEN /\ settled' = Rejected("removeOrder", RemoteError)
          /\ UNCHANGED orders
     ELSE /\ orders' = SelectSeq(orders, LAMBDA o : o.id # calls[s].id)
          /\ settled' = Resolved("removeOrder")
  /\ calls' = [calls EXCEPT ![s] = NoCall]
  /\ UNCHANGED <<remoteVars, items, clients, consignTypes, consignTotals,
                 loadVars, probe, adminVars, issued>>

----------------------------------------------------------------------------
(* addClient / addConsignType *)

ClientPayloads ==
  {[name |-> " Bob ", contact |-> "  "],
   [name |-> "Bob", contact |-> "034"],
   [name |-> "  ", contact |-> "034"]}

NewClientIds == {"c3", "c4", "c5"}
NewTypeIds == {"t3", "t4", "t5"}

\* Array.prototype.sort with (a, b) => a.name.localeCompare(b.name): stable
SortByName(list) == SortSeq(list, ByName)
SortByLabel(list) == SortSeq(list, ByLabel)

AddClient(s, payload) ==
  LET name == Trim(payload.name)
      contact == Trim(payload.contact)
  IN /\ issued < MaxCalls
     /\ IsFreeSlot(s)
     /\ issued' = issued + 1
     /\ IF name = ""
        THEN /\ settled' = Rejected("addClient", "Le nom du client est obligatoire.")
             /\ UNCHANGED calls
        ELSE /\ calls' = [calls EXCEPT ![s] =
                 [op |-> "addClient", pc |-> "sent", data |-> <<>>,
                  row |-> [name |-> name,
                           contact |-> IF contact = "" THEN NULL ELSE contact]]]
             /\ UNCHANGED settled
     /\ UNCHANGED <<remoteVars, localVars, loadVars, probe, adminVars>>

\* from('clients').insert({ name, contact }).select('*').single()
InsertClient(s) ==
  /\ calls[s].op = "addClient" /\ calls[s].pc = "sent"
  /\ \E id \in NewClientIds : \A r \in Range(rClients) : r.id # id
  /\ LET id == CHOOSE id \in NewClientIds : \A r \in Range(rClients) : r.id # id
         row == [id |-> id, name |-> calls[s].row.name,
                 contact |-> calls[s].row.contact]
     IN /\ rClients' = Append(rClients, row)
        /\ calls' = [calls EXCEPT ![s].pc = "ok", ![s].data = row]
  /\ UNCHANGED <<rItems, rOrders, rOrderItems, rTypes, rMovements, clock,
                 localVars, loadVars, probe, adminVars, issued, settled>>

\* an addClient that appends the new client without sorting
AddClientResumeAppending(s, ok) ==
  /\ calls[s].op = "addClient" /\ Settles(s, ok)
  /\ IF ~ok
     THEN /\ settled' = Rejected("addClient", RemoteError)
          /\ UNCHANGED clients
     ELSE /\ clients' = Append(clients, mapClientFromRow(calls[s].data))
          /\ settled' = Resolved("addClient")
  /\ calls' = [calls EXCEPT ![s] = NoCall]
  /\ UNCHANGED <<remoteVars, items, orders, consignTypes, consignTotals,
                 loadVars, probe, adminVars, issued>>

AddClientResume(s, ok) ==
  /\ calls[s].op = "addClient" /\ Settles(s, ok)
  /\ IF ~ok
     THEN /\ settled' = Rejected("addClient", RemoteError)
          /\ UNCHANGED clients
     ELSE /\ clients' = SortByName(Append(clients, mapClientFromRow(calls[s].data)))
          /\ settled' = Resolved("addClient")
  /\ calls' = [calls EXCEPT ![s] = NoCall]
  /\ UNCHANGED <<remoteVars, items, orders, consignTypes, consignTotals,
                 loadVars, probe, adminVars, issued>>

TypeLabels == {" Pot ", "Bocal", "  "}

\* an addConsignType that sends the label without looking at it
AddConsignTypeUnvalidated(s, label) ==
  /\ issued < MaxCalls
  /\ IsFreeSlot(s)
  /\ issued' = issued + 1
  /\ calls' = [calls EXCEPT ![s] =
       [op |-> "addConsignType", pc |-> "sent", label |-> Trim(label),
        data |-> <<>>]]
  /\ UNCHANGED <<remoteVars, localVars, loadVars, probe, adminVars, settled>>

AddConsignType(s, label) ==
  LET trimmedLabel == Trim(label)
  IN /\ issued < MaxCalls
     /\ IsFreeSlot(s)
     /\ issued' = issued + 1
     /\ IF trimmedLabel = ""
        THEN /\ settled' = Rejected("addConsignType",
                                    "Le nom de la consigne est obligatoire.")
             /\ UNCHANGED calls
        ELSE /\ calls' = [calls EXCEPT ![s] =
                 [op |-> "addConsignType", pc |-> "sent", label |-> trimmedLabel,
                  data |-> <<>>]]
             /\ UNCHANGED settled
     /\ UNCHANGED <<remoteVars, localVars, loadVars, probe, adminVars>>

\* from('consign_types').insert({ label }).select('*').single()
InsertConsignType(s) ==
  /\ calls[s].op = "addConsignType" /\ calls[s].pc = "sent"
  /\ \E id \in NewTypeIds : \A r \in Range(rTypes) : r.id # id
  /\ LET id == CHOOSE id \in NewTypeIds : \A r \in Range(rTypes) : r.id # id
         row == [id |-> id, label |-> calls[s].label]
     IN /\ rTypes' = Append(rTypes, row)
        /\ calls' = [calls EXCEPT ![s].pc = "ok", ![s].data = row]
  /\ UNCHANGED <<rItems, rOrders, rOrderItems, rClients, rMovements, clock,
                 localVars, loadVars, probe, adminVars, issued, settled>>

AddConsignTypeResume(s, ok) ==
  /\ calls[s].op = "addConsignType" /\ Settles(s, ok)
  /\ IF ~ok
     THEN /\ settled' = Rejected("addConsignType", RemoteError)
          /\ UNCHANGED consignTypes
     ELSE /\ consignTypes' =
               SortByLabel(Append(consignTypes, mapConsignTypeFromRow(calls[s].data)))
          /\ settled' = Resolved("addConsignType")
  /\ calls' = [calls EXCEPT ![s] = NoCall]
  /\ UNCHANGED <<remoteVars, items, orders, clients, consignTotals,
                 loadVars, probe, adminVars, issued>>

----------------------------------------------------------------------------
(* The initial load (the effect of lines 630-652 and the five fetches) *)

\* the backend serves the select of one fetch
ServeFetch(n) ==
  /\ fetches[n].pc = "sent"
  /\ fetches' = [fetches EXCEPT ![n] = [pc |-> "ok", data |-> QueryOf(n)]]
  /\ UNCHANGED <<remoteVars, localVars, loading, initSettled, logged,
                 calls, issued, settled, probe, adminVars>>

\* Promise.all over the five fetches, given the fetches as they will be
AllFulfilled(f) == \A n \in FetchNames : f[n].pc = "done"

\* The code of one fetch after its await, and what follows in the effect
\* without a further await: Promise.all settles when this fetch is the last
\* to fulfil or the first to reject, and then catch and finally run.
FetchResume(n, ok) ==
  /\ fetches[n].pc = (IF ok THEN "ok" ELSE "sent")
  /\ IF ok
     THEN LET after == [fetches EXCEPT ![n] = [pc |-> "done", data |-> <<>>]]
              result == FetchResult(n, fetches[n].data)
          IN /\ fetches' = after
             /\ items' = IF n = "items" THEN result ELSE items
             /\ orders' = IF n = "orders" THEN result ELSE orders
             /\ clients' = IF n = "clients" THEN result ELSE clients
             /\ consignTypes' = IF n = "consignTypes" THEN result ELSE consignTypes
             /\ consignTotals' = IF n = "consignTotals" THEN result ELSE consignTotals
             /\ IF ~initSettled /\ AllFulfilled(after)
                THEN loading' = FALSE /\ initSettled' = TRUE
                ELSE UNCHANGED <<loading, initSettled>>
             /\ UNCHANGED logged
     ELSE /\ fetches' = [fetches EXCEPT ![n] = [pc |-> "failed", data |-> <<>>]]
          /\ UNCHANGED localVars
          /\ IF ~initSettled
             THEN /\ logged' = logged \cup {n, "Supabase init error"}
                  /\ loading' = FALSE
                  /\ initSettled' = TRUE
             ELSE /\ logged' = logged \cup {n}
                  /\ UNCHANGED <<loading, initSettled>>
  /\ UNCHANGED <<remoteVars, calls, issued, settled, probe, adminVars>>

Quiescent ==
  /\ \A s \in Slots : calls[s].op = "idle"
  /\ \A n \in FetchNames : fetches[n].pc \in {"done", "failed"}

\* The page is loaded afresh: the provider mounts again and its effect
\* issues the five fetches.
Reload ==
  /\ issued < MaxCalls
  /\ Quiescent
  /\ issued' = issued + 1
  /\ items' = <<>> /\ orders' = <<>> /\ clients' = <<>>
  /\ consignTypes' = <<>> /\ consignTotals' = <<>>
  /\ loading' = TRUE
  /\ fetches' = [n \in FetchNames |-> [pc |-> "sent", data |-> <<>>]]
  /\ initSettled' = FALSE
  /\ logged' = {}
  /\ UNCHANGED <<remoteVars, calls, settled, probe, adminVars>>

NextLoad ==
  \/ \E n \in FetchNames : ServeFetch(n)
  \/ \E n \in FetchNames, ok \in BOOLEAN : FetchResume(n, ok)

SpecLoad == Init /\ [][NextLoad]_vars

----------------------------------------------------------------------------
(* The deposit ledger: transactions and cascading removals on a loaded store *)

NextLedger ==
  \/ \E s \in Slots, p \in ConsignPayloads : AssignConsigns(s, p)
  \/ \E s \in Slots, p \in ConsignPayloads : ReturnConsigns(s, p)
  \/ \E s \in Slots : InsertMovements(s)
  \/ \E s \in Slots, ok \in BOOLEAN : RecordConsignMovementsResume(s, ok)
  \/ \E s \in Slots, id \in RawRemoveIds : RemoveClient(s, id)
  \/ \E s \in Slots : ClearOrdersClient(s)
  \/ \E s \in Slots : DeleteMovementsOfClient(s)
  \/ \E s \in Slots : DeleteClient(s)
  \/ \E s \in Slots, ok \in BOOLEAN : RemoveClientResume(s, ok)
  \/ \E s \in Slots, id \in RawRemoveTypeIds : RemoveConsignType(s, id)
  \/ \E s \in Slots : DeleteMovementsOfType(s)
  \/ \E s \in Slots : DeleteConsignType(s)
  \/ \E s \in Slots, ok \in BOOLEAN : RemoveConsignTypeResume(s, ok)

SpecLedger == InitLoaded /\ [][NextLedger]_vars

----------------------------------------------------------------------------
(* Order creation and a fresh load of the page, on a loaded store *)

NextOrders ==
  \/ \E s \in Slots, p \in OrderPayloads : AddOrder(s, p)
  \/ \E s \in Slots : InsertOrder(s)
  \/ \E s \in Slots : InsertOrderItems(s)
  \/ \E s \in Slots, ok \in BOOLEAN : AddOrderResume(s, ok)
  \/ Reload
  \/ \E n \in FetchNames : ServeFetch(n)
  \/ \E n \in FetchNames, ok \in BOOLEAN : FetchResume(n, ok)

SpecOrders == InitLoaded /\ [][NextOrders]_vars

----------------------------------------------------------------------------
(* Deposit transactions alone, on a loaded store *)

NextTransactions ==
  \/ \E s \in Slots, p \in ConsignPayloads : AssignConsigns(s, p)
  \/ \E s \in Slots, p \in ConsignPayloads : ReturnConsigns(s, p)
  \/ \E s \in Slots : InsertMovements(s)
  \/ \E s \in Slots, ok \in BOOLEAN : RecordConsignMovementsResume(s, ok)

SpecTransactions == InitLoaded /\ [][NextTransactions]_vars

----------------------------------------------------------------------------
(* The operations with a single remote write, on a loaded store *)

NextSingle ==
  \/ \E s \in Slots, p \in ItemPayloads : AddItem(s, p)
  \/ \E s \in Slots : InsertItem(s)
  \/ \E s \in Slots, ok \in BOOLEAN : AddItemResume(s, ok)
  \/ \E s \in Slots, id \in ItemIds, p \in ItemPayloads : UpdateItem(s, id, p)
  \/ \E s \in Slots : UpdateItemRow(s)
  \/ \E s \in Slots, ok \in BOOLEAN : UpdateItemResume(s, ok)
  \/ \E s \in Slots, id \in ItemIds : RemoveItem(s, id)
  \/ \E s \in Slots : DeleteItem(s)
  \/ \E s \in Slots, ok \in BOOLEAN : RemoveItemResume(s, ok)
  \/ \E s \in Slots, id \in OrderIdInputs, st \in OrderStatuses :
       UpdateOrderStatus(s, id, st)
  \/ \E s \in Slots : UpdateOrderStatusRow(s)
  \/ \E s \in Slots, ok \in BOOLEAN : UpdateOrderStatusResume(s, ok)
  \/ \E s \in Slots, id \in OrderIdInputs : RemoveOrder(s, id)
  \/ \E s \in Slots : DeleteOrder(s)
  \/ \E s \in Slots, ok \in BOOLEAN : RemoveOrderResume(s, ok)
  \/ \E s \in Slots, p \in ClientPayloads : AddClient(s, p)
  \/ \E s \in Slots : InsertClient(s)
  \/ \E s \in Slots, ok \in BOOLEAN : AddClientResume(s, ok)
  \/ \E s \in Slots, l \in TypeLabels : AddConsignType(s, l)
  \/ \E s \in Slots : InsertConsignType(s)
  \/ \E s \in Slots, ok \in BOOLEAN : AddConsignTypeResume(s, ok)
  \/ NextTransactions

SpecSingle == InitLoaded /\ [][NextSingle]_vars

----------------------------------------------------------------------------
(* Client removal and deposit transactions of a caller that waits for each *)
(* call to settle before the next one                                      *)

NoCallInFlight == \A s \in Slots : calls[s].op = "idle"

NextCascade ==
  \/ NoCallInFlight /\ \E s \in Slots, p \in ConsignPayloads : AssignConsigns(s, p)
  \/ NoCallInFlight /\ \E s \in Slots, p \in ConsignPayloads : ReturnConsigns(s, p)
  \/ \E s \in Slots : InsertMovements(s)
  \/ \E s \in Slots, ok \in BOOLEAN : RecordConsignMovementsResume(s, ok)
  \/ NoCallInFlight /\ \E s \in Slots, id \in RawRemoveIds : RemoveClient(s, id)
  \/ \E s \in Slots : ClearOrdersClient(s)
  \/ \E s \in Slots : DeleteMovementsOfClient(s)
  \/ \E s \in Slots : DeleteClient(s)
  \/ \E s \in Slots, ok \in BOOLEAN : RemoveClientResume(s, ok)

SpecCascade == InitLoaded /\ [][NextCascade]_vars

----------------------------------------------------------------------------
(* The operations with several remote writes, on a loaded store *)

NextMultiStep ==
  \/ \E s \in Slots, p \in OrderPayloads : AddOrder(s, p)
  \/ \E s \in Slots : InsertOrder(s)
  \/ \E s \in Slots : InsertOrderItems(s)
  \/ \E s \in Slots, ok \in BOOLEAN : AddOrderResume(s, ok)
  \/ \E s \in Slots, id \in RawRemoveIds : RemoveClient(s, id)
  \/ \E s \in Slots : ClearOrdersClient(s)
  \/ \E s \in Slots : DeleteMovementsOfClient(s)
  \/ \E s \in Slots : DeleteClient(s)
  \/ \E s \in Slots, ok \in BOOLEAN : RemoveClientResume(s, ok)
  \/ \E s \in Slots, id \in RawRemoveTypeIds : RemoveConsignType(s, id)
  \/ \E s \in Slots : DeleteMovementsOfType(s)
  \/ \E s \in Slots : DeleteConsignType(s)
  \/ \E s \in Slots, ok \in BOOLEAN : RemoveConsignTypeResume(s, ok)

SpecMultiStep == InitLoaded /\ [][NextMultiStep]_vars

----------------------------------------------------------------------------
(* Deposit transactions and a fresh load of the page, on a loaded store *)

NextBalances ==
  \/ NextTransactions
  \/ Reload
  \/ \E n \in FetchNames : ServeFetch(n)
  \/ \E n \in FetchNames, ok \in BOOLEAN : FetchResume(n, ok)

SpecBalances == InitLoaded /\ [][NextBalances]_vars

----------------------------------------------------------------------------
(* Order creation while the catalog is edited, on a loaded store *)

NextSnapshots ==
  \/ \E s \in Slots, p \in OrderPayloads : AddOrder(s, p)
  \/ \E s \in Slots : InsertOrder(s)
  \/ \E s \in Slots : InsertOrderItems(s)
  \/ \E s \in Slots, ok \in BOOLEAN : AddOrderResume(s, ok)
  \/ \E s \in Slots, id \in ItemIds, p \in ItemPayloads : UpdateItem(s, id, p)
  \/ \E s \in Slots : UpdateItemRow(s)
  \/ \E s \in Slots, ok \in BOOLEAN : UpdateItemResume(s, ok)
  \/ \E s \in Slots, id \in ItemIds : RemoveItem(s, id)
  \/ \E s \in Slots : DeleteItem(s)
  \/ \E s \in Slots, ok \in BOOLEAN : RemoveItemResume(s, ok)

SpecSnapshots == InitLoaded /\ [][NextSnapshots]_vars

----------------------------------------------------------------------------
(* Creation and removal of clients, on a loaded store *)

NextClients ==
  \/ \E s \in Slots, p \in ClientPayloads : AddClient(s, p)
  \/ \E s \in Slots : InsertClient(s)
  \/ \E s \in Slots, ok \in BOOLEAN : AddClientResume(s, ok)
  \/ \E s \in Slots, id \in RawRemoveIds : RemoveClient(s, id)
  \/ \E s \in Slots : ClearOrdersClient(s)
  \/ \E s \in Slots : DeleteMovementsOfClient(s)
  \/ \E s \in Slots : DeleteClient(s)
  \/ \E s \in Slots, ok \in BOOLEAN : RemoveClientResume(s, ok)

SpecClients == InitLoaded /\ [][NextClients]_vars

----------------------------------------------------------------------------
(* Deposit transactions of a caller that waits for each call to settle, *)
(* on a loaded store                                                    *)

MaxSequential == 3

\* transactions of client c2 on type t1, of which nothing is outstanding at
\* the start: 5, 3 or 2 of t1
SequentialPayloads ==
  [clientId : {"c2"},
   items : {<<[typeId |-> "t1", quantity |-> Num(2 * q)]>> : q \in {5, 3, 2}}]

\* the loaded store, with MaxSequential calls to come
InitSequential ==
  /\ InitRemote
  /\ calls = [s \in Slots |-> NoCall]
  /\ issued = MaxCalls - MaxSequential
  /\ settled = [op |-> "none", ok |-> TRUE, error |-> ""]
  /\ logged = {}
  /\ items = FetchResult("items", SelectItems)
  /\ orders = FetchResult("orders", SelectOrders)
  /\ clients = FetchResult("clients", SelectClients)
  /\ consignTypes = FetchResult("consignTypes", SelectConsignTypes)
  /\ consignTotals = FetchResult("consignTotals", SelectMovements)
  /\ loading = FALSE
  /\ fetches = [n \in FetchNames |-> [pc |-> "done", data |-> <<>>]]
  /\ initSettled = TRUE
  /\ probe = NoProbe
  /\ AdminAtRest

NextSequential ==
  \/ NoCallInFlight /\ \E s \in Slots, p \in SequentialPayloads : AssignConsigns(s, p)
  \/ NoCallInFlight /\ \E s \in Slots, p \in SequentialPayloads : ReturnConsigns(s, p)
  \/ \E s \in Slots : InsertMovements(s)
  \/ \E s \in Slots, ok \in BOOLEAN : RecordConsignMovementsResume(s, ok)

SpecSequential == InitSequential /\ [][NextSequential]_vars

----------------------------------------------------------------------------
(* Order creation and status changes, on a loaded store *)

NextOrderStatus ==
  \/ \E s \in Slots, p \in OrderPayloads : AddOrder(s, p)
  \/ \E s \in Slots : InsertOrder(s)
  \/ \E s \in Slots : InsertOrderItems(s)
  \/ \E s \in Slots, ok \in BOOLEAN : AddOrderResume(s, ok)
  \/ \E s \in Slots, id \in OrderIdInputs, st \in OrderStatuses :
       UpdateOrderStatus(s, id, st)
  \/ \E s \in Slots : UpdateOrderStatusRow(s)
  \/ \E s \in Slots, ok \in BOOLEAN : UpdateOrderStatusResume(s, ok)

SpecOrderStatus == InitLoaded /\ [][NextOrderStatus]_vars

----------------------------------------------------------------------------
(* The catalog: three calls that add, change and remove products, on a *)
(* loaded store                                                        *)

NextCatalog ==
  \/ \E s \in Slots, p \in ItemPayloads : AddItem(s, p)
  \/ \E s \in Slots : InsertItem(s)
  \/ \E s \in Slots, ok \in BOOLEAN : AddItemResume(s, ok)
  \/ \E s \in Slots, id \in ItemIds, p \in ItemPayloads : UpdateItem(s, id, p)
  \/ \E s \in Slots : UpdateItemRow(s)
  \/ \E s \in Slots, ok \in BOOLEAN : UpdateItemResume(s, ok)
  \/ \E s \in Slots, id \in ItemIds : RemoveItem(s, id)
  \/ \E s \in Slots : DeleteItem(s)
  \/ \E s \in Slots, ok \in BOOLEAN : RemoveItemResume(s, ok)

SpecCatalog == InitSequential /\ [][NextCatalog]_vars

----------------------------------------------------------------------------
(* Creation and removal of clients and of deposit types, on a loaded store *)

NextDirectory ==
  \/ \E s \in Slots, p \in ClientPayloads : AddClient(s, p)
  \/ \E s \in Slots : InsertClient(s)
  \/ \E s \in Slots, ok \in BOOLEAN : AddClientResume(s, ok)
  \/ \E s \in Slots, l \in TypeLabels : AddConsignType(s, l)
  \/ \E s \in Slots : InsertConsignType(s)
  \/ \E s \in Slots, ok \in BOOLEAN : AddConsignTypeResume(s, ok)
  \/ \E s \in Slots, id \in RawRemoveIds : RemoveClient(s, id)
  \/ \E s \in Slots : ClearOrdersClient(s)
  \/ \E s \in Slots : DeleteMovementsOfClient(s)
  \/ \E s \in Slots : DeleteClient(s)
  \/ \E s \in Slots, ok \in BOOLEAN : RemoveClientResume(s, ok)
  \/ \E s \in Slots, id \in RawRemoveTypeIds : RemoveConsignType(s, id)
  \/ \E s \in Slots : DeleteMovementsOfType(s)
  \/ \E s \in Slots : DeleteConsignType(s)
  \/ \E s \in Slots, ok \in BOOLEAN : RemoveConsignTypeResume(s, ok)

SpecDirectory == InitLoaded /\ [][NextDirectory]_vars

----------------------------------------------------------------------------
(* Clients created while the initial load is running *)

NextLoadWrite ==
  \/ \E n \in FetchNames : ServeFetch(n)
  \/ \E n \in FetchNames, ok \in BOOLEAN : FetchResume(n, ok)
  \/ \E s \in Slots, p \in ClientPayloads : AddClient(s, p)
  \/ \E s \in Slots : InsertClient(s)
  \/ \E s \in Slots, ok \in BOOLEAN : AddClientResume(s, ok)

SpecLoadWrite == Init /\ [][NextLoadWrite]_vars

----------------------------------------------------------------------------
(* Client removal overlapping deposit transactions that are issued only for *)
(* clients of the clients collection                                        *)

\* the client of the payload is in the clients collection
ClientListed(p) == \E c \in Range(clients) : c.id = Trim(p.clientId)

NextRemoval ==
  \/ \E s \in Slots, p \in ConsignPayloads : ClientListed(p) /\ AssignConsigns(s, p)
  \/ \E s \in Slots, p \in ConsignPayloads : ClientListed(p) /\ ReturnConsigns(s, p)
  \/ \E s \in Slots : InsertMovements(s)
  \/ \E s \in Slots, ok \in BOOLEAN : RecordConsignMovementsResume(s, ok)
  \/ \E s \in Slots, id \in RawRemoveIds : RemoveClient(s, id)
  \/ \E s \in Slots : ClearOrdersClient(s)
  \/ \E s \in Slots : DeleteMovementsOfClient(s)
  \/ \E s \in Slots : DeleteClient(s)
  \/ \E s \in Slots, ok \in BOOLEAN : RemoveClientResume(s, ok)

SpecRemoval == InitLoaded /\ [][NextRemoval]_vars

----------------------------------------------------------------------------
(* The whole store *)

Next ==
  \/ \E n \in FetchNames : ServeFetch(n)
  \/ \E n \in FetchNames, ok \in BOOLEAN : FetchResume(n, ok)
  \/ Reload
  \/ \E s \in Slots, p \in ItemPayloads : AddItem(s, p)
  \/ \E s \in Slots : InsertItem(s)
  \/ \E s \in Slots, ok \in BOOLEAN : AddItemResume(s, ok)
  \/ \E s \in Slots, id \in ItemIds, p \in ItemPayloads : UpdateItem(s, id, p)
  \/ \E s \in Slots : UpdateItemRow(s)
  \/ \E s \in Slots, ok \in BOOLEAN : UpdateItemResume(s, ok)
  \/ \E s \in Slots, id \in ItemIds : RemoveItem(s, id)
  \/ \E s \in Slots : DeleteItem(s)
  \/ \E s \in Slots, ok \in BOOLEAN : RemoveItemResume(s, ok)
  \/ \E s \in Slots, p \in OrderPayloads : AddOrder(s, p)
  \/ \E s \in Slots : InsertOrder(s)
  \/ \E s \in Slots : InsertOrderItems(s)
  \/ \E s \in Slots, ok \in BOOLEAN : AddOrderResume(s, ok)
  \/ \E s \in Slots, id \in OrderIdInputs, st \in OrderStatuses :
       UpdateOrderStatus(s, id, st)
  \/ \E s \in Slots : UpdateOrderStatusRow(s)
  \/ \E s \in Slots, ok \in BOOLEAN : UpdateOrderStatusResume(s, ok)
  \/ \E s \in Slots, id \in OrderIdInputs : RemoveOrder(s, id)
  \/ \E s \in Slots : DeleteOrder(s)
  \/ \E s \in Slots, ok \in BOOLEAN : RemoveOrderResume(s, ok)
  \/ \E s \in Slots, p \in ClientPayloads : AddClient(s, p)
  \/ \E s \in Slots : InsertClient(s)
  \/ \E s \in Slots, ok \in BOOLEAN : AddClientResume(s, ok)
  \/ \E s \in Slots, l \in TypeLabels : AddConsignType(s, l)
  \/ \E s \in Slots : InsertConsignType(s)
  \/ \E s \in Slots, ok \in BOOLEAN : AddConsignTypeResume(s, ok)
  \/ NextLedger

Spec == Init /\ [][Next]_vars

----------------------------------------------------------------------------
(* The pure functions of the ledger, each applied to arguments drawn at start *)

storeVars == <<remoteVars, localVars, loadVars, calls, issued, settled>>

SeqsUpTo(S, n) == UNION {[1..k -> S] : k \in 0..n}

\* the function fn is to be applied to one of the argument tuples of Args
InitProbe(fn, Args) ==
  /\ LoadedStore
  /\ probe \in {[fn |-> fn, done |-> FALSE, arg |-> a, out |-> <<>>] : a \in Args}
  /\ AdminAtRest

\* type identifiers and quantities as the deposit form can hand them over:
\* padded and blank identifiers; -1, 0, 0.5, 1.5, 2, NaN, Infinity
SanitizeTypeIds == {"t1", " t1 ", "t2", "  "}
SanitizeQuantities == {Num(-2), Num(0), Num(1), Num(3), Num(4), NaN, Infinity}
SanitizeInputs ==
  {<<l>> : l \in SeqsUpTo([typeId : SanitizeTypeIds,
                           quantity : SanitizeQuantities], MaxLen)}

ApplySanitize ==
  /\ probe.fn = "sanitizeConsignItems" /\ ~probe.done
  /\ probe' = [probe EXCEPT !.done = TRUE,
                            !.out = sanitizeConsignItems(probe.arg[1])]
  /\ UNCHANGED <<storeVars, adminVars>>

SpecSanitize ==
  InitProbe("sanitizeConsignItems", SanitizeInputs) /\ [][ApplySanitize]_vars

\* movement rows as the store inserts them, and the logs made of them
FoldRows == {Movement(c, t, q) : c \in ClientIds, t \in TypeIds, q \in {-1, 1, 2}}
FoldInputs == {<<l>> : l \in SeqsUpTo(FoldRows, MaxLen)}

ApplyFold ==
  /\ probe.fn = "buildConsignTotalsFromRows" /\ ~probe.done
  /\ probe' = [probe EXCEPT !.done = TRUE,
                            !.out = buildConsignTotalsFromRows(probe.arg[1])]
  /\ UNCHANGED <<storeVars, adminVars>>

SpecFold ==
  InitProbe("buildConsignTotalsFromRows", FoldInputs) /\ [][ApplyFold]_vars

\* logs, sanitized item lists and multipliers for the incremental update
DeltaRows == {Movement(c, t, q) : c \in ClientIds, t \in TypeIds, q \in {1, -2}}
SanitizedLists ==
  {sanitizeConsignItems(l) :
     l \in SeqsUpTo([typeId : TypeIds, quantity : {Num(2), Num(4)}], 2)}
DeltaInputs ==
  SeqsUpTo(DeltaRows, MaxLen) \X ClientIds \X SanitizedLists \X {1, -1}

\* the update of a confirmed transaction on the totals loaded from log L
ApplyDeltas ==
  /\ probe.fn = "applyConsignDeltas" /\ ~probe.done
  /\ probe' = [probe EXCEPT
       !.done = TRUE,
       !.out = applyConsignDeltas(buildConsignTotalsFromRows(probe.arg[1]),
                                  probe.arg[2], probe.arg[3], probe.arg[4])]
  /\ UNCHANGED <<storeVars, adminVars>>

SpecDeltas ==
  InitProbe("applyConsignDeltas", DeltaInputs) /\ [][ApplyDeltas]_vars

(***************************************************************************)
(* Numbers of the quantity utilities (utils/items.ts)                      *)
(*                                                                         *)
(* A JavaScript number is an IEEE-754 double: a sign, a 53-bit significand *)
(* and a power of two.  The significands do not fit the integers of the    *)
(* model checker, so a natural number is a sequence of limbs, least        *)
(* significant first, without leading zero limbs.  The exponent range of   *)
(* a double (overflow, subnormals) is not modelled: the quantities of the  *)
(* order form lie between 1e-5 and 1e6.                                    *)
(***************************************************************************)

LimbBits == 15
Limb == 2^LimbBits
MantissaBits == 53

RECURSIVE BigNorm(_)
BigNorm(a) ==
  IF a = <<>> THEN a
  ELSE IF a[Len(a)] = 0 THEN BigNorm(SubSeq(a, 1, Len(a) - 1)) ELSE a

RECURSIVE BigOfNat(_)
BigOfNat(n) == IF n = 0 THEN <<>> ELSE <<n % Limb>> \o BigOfNat(n \div Limb)

LimbAt(a, i) == IF i >= 1 /\ i <= Len(a) THEN a[i] ELSE 0

RECURSIVE AddFrom(_, _, _, _)
AddFrom(a, b, i, carry) ==
  IF i > Len(a) /\ i > Len(b)
    THEN IF carry = 0 THEN <<>> ELSE <<carry>>
    ELSE LET s == LimbAt(a, i) + LimbAt(b, i) + carry
         IN  <<s % Limb>> \o AddFrom(a, b, i + 1, s \div Limb)

BigAdd(a, b) == BigNorm(AddFrom(a, b, 1, 0))

\* a - b for a >= b
RECURSIVE SubFrom(_, _, _, _)
SubFrom(a, b, i, borrow) ==
  IF i > Len(a) THEN <<>>
  ELSE LET d == LimbAt(a, i) - LimbAt(b, i) - borrow
       IN  <<IF d < 0 THEN d + Limb ELSE d>>
             \o SubFrom(a, b, i + 1, IF d < 0 THEN 1 ELSE 0)

BigSub(a, b) == BigNorm(SubFrom(a, b, 1, 0))

\* -1, 0 or 1 as a < b, a = b or a > b
RECURSIVE CmpFrom(_, _, _)
CmpFrom(a, b, i) ==
  IF i = 0 THEN 0
  ELSE IF a[i] < b[i] THEN -1
  ELSE IF a[i] > b[i] THEN 1
  ELSE CmpFrom(a, b, i - 1)

BigCmp(a, b) ==
  IF Len(a) < Len(b) THEN -1
  ELSE IF Len(a) > Len(b) THEN 1
  ELSE CmpFrom(a, b, Len(a))

RECURSIVE MulLimbFrom(_, _, _, _)
MulLimbFrom(a, k, i, carry) ==
  IF i > Len(a)
    THEN IF carry = 0 THEN <<>> ELSE <<carry>>
    ELSE LET p == a[i] * k + carry
         IN  <<p % Limb>> \o MulLimbFrom(a, k, i + 1, p \div Limb)

RECURSIVE MulFrom(_, _, _)
MulFrom(a, b, i) ==
  IF i > Len(b) THEN <<>>
  ELSE AddFrom(MulLimbFrom(a, b[i], 1, 0), <<0>> \o MulFrom(a, b, i + 1), 1, 0)

BigMul(a, b) == BigNorm(MulFrom(a, b, 1))

BigPow2(k) == [i \in 1..(k \div LimbBits) |-> 0] \o <<2^(k % LimbBits)>>

\* a * 2^k
BigShl(a, k) ==
  LET w == k \div LimbBits
      s == k % LimbBits
  IN  BigNorm([i \in 1..(Len(a) + w + 1) |->
                 ((LimbAt(a, i - w) * 2^s) % Limb)
                   + (LimbAt(a, i - w - 1) \div 2^(LimbBits - s))])

\* a \div 2^k
BigShr(a, k) ==
  LET w == k \div LimbBits
      s == k % LimbBits
  IN  BigNorm([i \in 1..(Len(a) - w) |->
                 (a[i + w] \div 2^s)
                   + ((LimbAt(a, i + w + 1) % 2^s) * 2^(LimbBits - s))])

\* a % 2^k
BigLow(a, k) ==
  LET w == k \div LimbBits
      s == k % LimbBits
  IN  BigNorm([i \in 1..(w + 1) |->
                 IF i <= w THEN LimbAt(a, i) ELSE LimbAt(a, i) % 2^s])

RECURSIVE BitsOfNat(_)
BitsOfNat(n) == IF n = 0 THEN 0 ELSE 1 + BitsOfNat(n \div 2)

\* the number of binary digits of a
BigBits(a) ==
  IF a = <<>> THEN 0 ELSE LimbBits * (Len(a) - 1) + BitsOfNat(a[Len(a)])

\* binary digit i of a, digit 0 the least significant
BigBit(a, i) ==
  (LimbAt(a, i \div LimbBits + 1) \div 2^(i % LimbBits)) % 2

\* the one element of a set with one element; the elements of a set are
\* evaluated before anything is done with them, as the operands of an
\* arithmetic operator of the language are
TheValue(S) == CHOOSE v \in S : TRUE

\* the digit q with d * q <= r < d * (q + 1), for r < d * Limb and a d whose
\* top limb is at least Limb / 2: at most two below the quotient of the top
\* two limbs of r by the top limb of d
DigitGuess(r, d) ==
  LET g == (LimbAt(r, Len(d) + 1) * Limb + LimbAt(r, Len(d))) \div d[Len(d)]
  IN  IF g > Limb - 1 THEN Limb - 1 ELSE g

BigMulLimb(a, k) == BigNorm(MulLimbFrom(a, k, 1, 0))

Digit(r, d) ==
  TheValue({q \in {g - c : g \in {DigitGuess(r, d)}, c \in 0..2} :
              /\ q >= 0
              /\ BigCmp(BigMulLimb(d, q), r) <= 0
              /\ BigCmp(r, BigMulLimb(d, q + 1)) < 0})

DivLimb(d, qr, limb) ==
  TheValue({<<<<q>> \o qr[1], BigSub(r, BigMulLimb(d, q))>> :
              q \in {Digit(r, d) : r \in {BigNorm(<<limb>> \o qr[2])}},
              r \in {BigNorm(<<limb>> \o qr[2])}})

\* <<quotient, remainder>> of the limbs i.. of n by d, one limb of n at a
\* time from the top
RECURSIVE DivFrom(_, _, _)
DivFrom(n, d, i) ==
  IF i > Len(n) THEN <<<<>>, <<>>>>
  ELSE TheValue({DivLimb(d, upper, n[i]) : upper \in {DivFrom(n, d, i + 1)}})

\* <<quotient, remainder>> of n by d > 0: long division after both are
\* scaled to bring the top limb of d to Limb / 2 or more
BigDivMod(n, d) ==
  LET s == LimbBits - BitsOfNat(d[Len(d)])
  IN  TheValue({<<BigNorm(qr[1]), BigShr(qr[2], s)>> :
                  qr \in {DivFrom(BigShl(n, s), BigShl(d, s), 1)}})

\* the number of zero binary digits at the low end of a # 0
TrailingZeros(a) ==
  LET w == CHOOSE i \in 1..Len(a) : a[i] # 0 /\ \A j \in 1..(i - 1) : a[j] = 0
      s == CHOOSE i \in 0..(LimbBits - 1) :
             (a[w] \div 2^i) % 2 = 1 /\ a[w] % 2^i = 0
  IN  LimbBits * (w - 1) + s

-----------------------------------------------------------------------------
(* Doubles: (-1)^neg * m * 2^e, m odd, or zero *)

Zero == [kind |-> "num", neg |-> FALSE, m |-> <<>>, e |-> 0]

\* the value (-1)^neg * m * 2^e in its one representation
Canon(neg, m, e) ==
  IF m = <<>> THEN Zero
  ELSE LET z == TrailingZeros(m)
       IN  [kind |-> "num", neg |-> neg, m |-> BigShr(m, z), e |-> e + z]

\* the double nearest to (-1)^neg * (m + f) * 2^e, ties to even, where
\* 0 < f < 1 if sticky and f = 0 otherwise
RoundToDouble(neg, m, e, sticky) ==
  LET shift == BigBits(m) - MantissaBits
  IN  IF shift <= 0 THEN Canon(neg, m, e)
      ELSE LET q == BigShr(m, shift)
               c == BigCmp(BigLow(m, shift), BigPow2(shift - 1))
               up == c > 0 \/ (c = 0 /\ (sticky \/ BigBit(q, 0) = 1))
           IN  Canon(neg, IF up THEN BigAdd(q, <<1>>) ELSE q, e + shift)

\* an integer of the model as a double
FromInt(n) == Canon(n < 0, BigOfNat(IF n < 0 THEN -n ELSE n), 0)

\* x * y
FMul(x, y) ==
  TheValue({RoundToDouble(a.neg # b.neg, BigMul(a.m, b.m), a.e + b.e, FALSE) :
              a \in {x}, b \in {y}})

\* the quotient a.m * 2^k / b.m with enough digits to round it
Quotient(a, b, k) ==
  TheValue({RoundToDouble(a.neg # b.neg, qr[1], a.e - b.e - k, qr[2] # <<>>) :
              qr \in {BigDivMod(BigShl(a.m, k), b.m)}})

\* x / y for y # 0
FDiv(x, y) ==
  TheValue({IF a.m = <<>> THEN Zero
            ELSE Quotient(a, b, IF d > 0 THEN d ELSE 0) :
              a \in {x}, b \in {y},
              d \in {MantissaBits + 3 + BigBits(y.m) - BigBits(x.m)}})

\* the exact sum x + y, not yet rounded: [neg, m, e]
ExactSum(x, y) ==
  LET e == IF x.e < y.e THEN x.e ELSE y.e
      a == BigShl(x.m, x.e - e)
      b == BigShl(y.m, y.e - e)
      c == BigCmp(a, b)
  IN  IF x.neg = y.neg THEN [neg |-> x.neg, m |-> BigAdd(a, b), e |-> e]
      ELSE IF c >= 0 THEN [neg |-> x.neg /\ c > 0, m |-> BigSub(a, b), e |-> e]
      ELSE [neg |-> y.neg, m |-> BigSub(b, a), e |-> e]

Negated(x) == IF x.m = <<>> THEN x ELSE [x EXCEPT !.neg = ~x.neg]

\* x - y
FSub(x, y) ==
  TheValue({RoundToDouble(s.neg, s.m, s.e, FALSE) :
              s \in {ExactSum(x, Negated(y))}})

\* x < y
FLess(x, y) == ExactSum(x, Negated(y)).neg

\* Math.abs
MathAbs(x) == [x EXCEPT !.neg = FALSE]

OneHalf == [kind |-> "num", neg |-> FALSE, m |-> <<1>>, e |-> -1]

\* Math.round: the integer nearest to x, a tie going up
MathRound(x) ==
  TheValue({IF s.e >= 0 THEN Canon(s.neg, s.m, s.e)
            ELSE IF s.neg /\ BigLow(s.m, -s.e) # <<>>
              THEN Canon(TRUE, BigAdd(BigShr(s.m, -s.e), <<1>>), 0)
            ELSE Canon(s.neg, BigShr(s.m, -s.e), 0) :
              s \in {ExactSum(x, OneHalf)}})

\* the decimal literal n / 10^k
Dec(n, k) == FDiv(FromInt(n), FromInt(10^k))

-----------------------------------------------------------------------------
(* The quantity utilities (utils/items.ts) *)

EPSILON == Dec(1, 4)

QuantityTypes == {"/pc", "/kg", "/100g", "/500g"}

KG_PER_UNIT(qt) ==
  CASE qt = "/pc" -> Dec(1, 0)
    [] qt = "/kg" -> Dec(1, 0)
    [] qt = "/100g" -> Dec(1, 1)
    [] qt = "/500g" -> Dec(5, 1)

isPieceQuantity(qt) == qt = "/pc"

unitSizeInKg(qt) == IF qt \in QuantityTypes THEN KG_PER_UNIT(qt) ELSE Dec(1, 0)

\* item.step ?? QUANTITY_INPUT_STEP[item.quantityType], in tenths
inputStepFor(item) ==
  IF item.step = None THEN QUANTITY_INPUT_STEP(item.quantityType)
  ELSE item.step[1]

\* x === 0
IsZero(x) == IsFinite(x) /\ x.m = <<>>

\* x <= 0 for a finite x
NotPositive(x) == x.m = <<>> \/ x.neg

\* The utilities take a product or a quantity type; the model hands them
\* the quantity type (getQuantityType of the product).
toUnitQuantity(qt, displayQuantity) ==
  IF ~IsFinite(displayQuantity) \/ IsZero(displayQuantity) THEN Zero
  ELSE IF isPieceQuantity(qt) THEN displayQuantity
  ELSE IF NotPositive(unitSizeInKg(qt)) THEN displayQuantity
  ELSE FDiv(displayQuantity, unitSizeInKg(qt))

toDisplayQuantityDividing(qt, unitQuantity) ==
  IF ~IsFinite(unitQuantity) \/ IsZero(unitQuantity) THEN Zero
  ELSE IF isPieceQuantity(qt) THEN unitQuantity
  ELSE FDiv(unitQuantity, unitSizeInKg(qt))

toDisplayQuantity(qt, unitQuantity) ==
  IF ~IsFinite(unitQuantity) \/ IsZero(unitQuantity) THEN Zero
  ELSE IF isPieceQuantity(qt) THEN unitQuantity
  ELSE IF NotPositive(unitSizeInKg(qt)) THEN unitQuantity
  ELSE FMul(unitQuantity, unitSizeInKg(qt))

\* the multiple of a product, kept in tenths, as a number
MultipleOf(item) == Dec(item.multipleOf[1], 1)

\* !item.multipleOf: undefined or 0
NoMultiple(item) == item.multipleOf = None \/ item.multipleOf[1] = 0

\* Math.abs(ratio - Math.round(ratio)) < EPSILON
IsMultiple(ratio) == FLess(MathAbs(FSub(ratio, MathRound(ratio))), EPSILON)

MultipleMessage(item) ==
  [text |-> "Quantite multiple de", multipleOf |-> item.multipleOf[1],
   label |-> item.quantityType]

validateQuantityMultipleOnDisplay(item, quantity) ==
  IF NoMultiple(item) \/ IsZero(quantity) THEN None
  ELSE IF ~IsFinite(quantity) THEN None
  ELSE IF IsMultiple(FDiv(quantity, MultipleOf(item))) THEN None
  ELSE Some(MultipleMessage(item))

\* None for null, Some(message) for the message
validateQuantityMultiple(item, quantity) ==
  IF NoMultiple(item) \/ IsZero(quantity) THEN None
  ELSE IF IsZero(toUnitQuantity(item.quantityType, quantity)) THEN None
  ELSE IF IsMultiple(FDiv(toUnitQuantity(item.quantityType, quantity),
                          MultipleOf(item))) THEN None
  ELSE Some(MultipleMessage(item))

-----------------------------------------------------------------------------
(* The order totals (utils/orders.ts) *)

\* x + y
FAdd(x, y) ==
  TheValue({RoundToDouble(s.neg, s.m, s.e, FALSE) : s \in {ExactSum(x, y)}})

TRANSPORT_FEE_PER_PRODUCT == FromInt(1000)

\* entries.reduce((sum, entry) => sum + entry.quantity * entry.unitPrice, 0)
\* over the first n entries
RECURSIVE ReduceTotal(_, _)
ReduceTotal(entries, n) ==
  IF n = 0 THEN Zero
  ELSE FAdd(ReduceTotal(entries, n - 1),
            FMul(entries[n].quantity, entries[n].unitPrice))

ProductTotal(entries) == ReduceTotal(entries, Len(entries))

TransportFee(entries) == FMul(FromInt(Len(entries)), TRANSPORT_FEE_PER_PRODUCT)

\* of an order, the entries are all the function reads
computeOrderFinancials(entries) ==
  [productTotal |-> ProductTotal(entries),
   transportFee |-> TransportFee(entries),
   grandTotal |-> FAdd(ProductTotal(entries), TransportFee(entries))]

-----------------------------------------------------------------------------
(* The quantity utilities, each applied to arguments drawn at start *)

\* quantities as the order form can hand them over: 0, 0.25, 0.3, 0.5, 1,
\* 1.5, 1.7, 2, 2.00005, 2.0002, 3.3, 0.11, -1.5, NaN, Infinity
DisplayQuantities ==
  {Dec(0, 0), Dec(25, 2), Dec(3, 1), Dec(5, 1), Dec(1, 0), Dec(15, 1),
   Dec(17, 1), Dec(2, 0), Dec(200005, 5), Dec(20002, 4), Dec(33, 1),
   Dec(11, 2), Dec(-15, 1), NaN, Infinity}

\* products of each quantity type without a multiple and with the multiples
\* 0, 0.5, 1 and 2.5
MultipleItems ==
  {mapItemFromRow([id |-> "i1", name |-> "Brie", price |-> 1000,
                   quantity_type |-> qt, multiple_of |-> m, step |-> None]) :
     qt \in QuantityTypes, m \in {None, Some(0), Some(5), Some(10), Some(25)}}

MultipleInputs == MultipleItems \X DisplayQuantities

ApplyValidate ==
  /\ probe.fn = "validateQuantityMultiple" /\ ~probe.done
  /\ probe' = [probe EXCEPT
       !.done = TRUE,
       !.out = validateQuantityMultiple(probe.arg[1], probe.arg[2])]
  /\ UNCHANGED <<storeVars, adminVars>>

SpecMultiple ==
  InitProbe("validateQuantityMultiple", MultipleInputs) /\ [][ApplyValidate]_vars

ConvertInputs == QuantityTypes \X DisplayQuantities

\* the canonical quantity of a display quantity and the display quantity of
\* that canonical quantity
ApplyConvert ==
  /\ probe.fn = "toUnitQuantity" /\ ~probe.done
  /\ probe' = [probe EXCEPT
       !.done = TRUE,
       !.out = [unit |-> toUnitQuantity(probe.arg[1], probe.arg[2]),
                display |-> toDisplayQuantity(probe.arg[1],
                              toUnitQuantity(probe.arg[1], probe.arg[2]))]]
  /\ UNCHANGED <<storeVars, adminVars>>

SpecConvert ==
  InitProbe("toUnitQuantity", ConvertInputs) /\ [][ApplyConvert]_vars

\* line entries of per-100g products at 1000 the unit, ordered as 0.2 kg,
\* 0.3 kg and 0.6 kg, and of a per-500g product at 500 the unit, ordered as
\* 1.5 kg: the quantities are canonical, as the order form hands them over
FinancialEntries ==
  {[quantity |-> toUnitQuantity("/100g", Dec(2, 1)), unitPrice |-> FromInt(1000)],
   [quantity |-> toUnitQuantity("/100g", Dec(3, 1)), unitPrice |-> FromInt(1000)],
   [quantity |-> toUnitQuantity("/100g", Dec(6, 1)), unitPrice |-> FromInt(1000)],
   [quantity |-> toUnitQuantity("/500g", Dec(15, 1)), unitPrice |-> FromInt(500)]}

FinancialInputs == {<<l>> : l \in SeqsUpTo(FinancialEntries, MaxLen)}

ApplyFinancials ==
  /\ probe.fn = "computeOrderFinancials" /\ ~probe.done
  /\ probe' = [probe EXCEPT !.done = TRUE,
                            !.out = computeOrderFinancials(probe.arg[1])]
  /\ UNCHANGED <<storeVars, adminVars>>

SpecFinancials ==
  InitProbe("computeOrderFinancials", FinancialInputs) /\ [][ApplyFinancials]_vars

\* products of each quantity type whose step is absent, 0, -0.5, 0.5 or 2,
\* at the prices 500 and 1000, without a multiple or with the multiple 1
StepItems ==
  [id : {"i1"}, name : {"Brie"}, price : {500, 1000},
   quantityType : QuantityTypes, multipleOf : {None, Some(10)},
   step : {None, Some(0), Some(-5), Some(5), Some(20)}]

StepInputs == {<<it>> : it \in StepItems}

ApplyInputStep ==
  /\ probe.fn = "inputStepFor" /\ ~probe.done
  /\ probe' = [probe EXCEPT !.done = TRUE, !.out = inputStepFor(probe.arg[1])]
  /\ UNCHANGED <<storeVars, adminVars>>

SpecStep == InitProbe("inputStepFor", StepInputs) /\ [][ApplyInputStep]_vars

----------------------------------------------------------------------------
(* AdminProvider: the session, login, logout and changePassword *)

\* calls of AdminProvider made in one run
MaxAuthCalls == 2

AccountEmails == {"a@b.c"}
Passwords == {"old", "new"}
ChangePasswordPayloads == [currentPassword : Passwords, newPassword : {"new"}]

\* the user record of the one account; it has an email or none
AccountUser(email, stamp) == [id |-> "u1", email |-> email, updated_at |-> stamp]

FreeAuthSlots == {s \in Slots : authCalls[s].op = "idle"}
IsFreeAuthSlot(s) == s \in FreeAuthSlots /\ \A t \in FreeAuthSlots : s <= t

\* AdminProvider right after mounting: loadSession is running, and the client
\* library holds the session of the account or none
InitAdmin ==
  /\ user = NoUser /\ isAuthLoading = TRUE /\ authError = NULL
  /\ rUser \in {AccountUser(e, 0) : e \in AccountEmails \cup {NULL}}
  /\ rPassword = "old"
  /\ session \in {NoUser, rUser}
  /\ sessionLoaded = FALSE
  /\ authCalls = [s \in Slots |-> NoCall]
  /\ authEvents = <<>>
  /\ authIssued = 0
  /\ authSettled = [op |-> "none", ok |-> TRUE, error |-> ""]
  /\ authLogged = {}

\* loadSession: getSession, then setUser(data.session?.user ?? null)
LoadSession(ok) ==
  /\ ~sessionLoaded
  /\ sessionLoaded' = TRUE
  /\ IF ok
     THEN /\ user' = session
          /\ UNCHANGED <<authError, authLogged>>
     ELSE /\ authLogged' = authLogged \cup {"Supabase auth session error"}
          /\ authError' = RemoteError
          /\ user' = NoUser
  /\ isAuthLoading' = FALSE
  /\ UNCHANGED <<storeVars, probe, rUser, rPassword, session, authCalls,
                 authEvents, authIssued, authSettled>>

\* the listener registered with onAuthStateChange
OnAuthStateChange ==
  /\ authEvents # <<>>
  /\ user' = Head(authEvents).session
  /\ authError' = NULL
  /\ isAuthLoading' = FALSE
  /\ authEvents' = Tail(authEvents)
  /\ UNCHANGED <<storeVars, probe, rUser, rPassword, session, sessionLoaded,
                 authCalls, authIssued, authSettled, authLogged>>

Login(s, email, password) ==
  /\ authIssued < MaxAuthCalls
  /\ IsFreeAuthSlot(s)
  /\ authIssued' = authIssued + 1
  /\ isAuthLoading' = TRUE
  /\ authError' = NULL
  /\ authCalls' = [authCalls EXCEPT ![s] =
       [op |-> "login", pc |-> "signIn", email |-> email, password |-> password]]
  /\ UNCHANGED <<storeVars, probe, user, rUser, rPassword, session,
                 sessionLoaded, authEvents, authSettled, authLogged>>

\* the identity provider serves auth.signInWithPassword({ email, password })
SignInWithPassword(s, reachable) ==
  /\ authCalls[s].pc = "signIn"
  /\ IF /\ reachable
        /\ rUser.email = authCalls[s].email
        /\ rPassword = authCalls[s].password
     THEN /\ session' = rUser
          /\ authEvents' = Append(authEvents, [session |-> rUser])
          /\ authCalls' = [authCalls EXCEPT ![s].pc = "signedIn"]
     ELSE /\ authCalls' = [authCalls EXCEPT ![s].pc = "signInError"]
          /\ UNCHANGED <<session, authEvents>>
  /\ UNCHANGED <<storeVars, probe, user, isAuthLoading, authError, rUser,
                 rPassword, sessionLoaded, authIssued, authSettled, authLogged>>

LoginResume(s) ==
  /\ authCalls[s].op = "login"
  /\ authCalls[s].pc \in {"signedIn", "signInError"}
  /\ IF authCalls[s].pc = "signInError"
     THEN /\ authLogged' = authLogged \cup {"Supabase login error"}
          /\ authError' = RemoteError
          /\ authSettled' = Rejected("login", RemoteError)
     ELSE /\ authSettled' = Resolved("login")
          /\ UNCHANGED <<authError, authLogged>>
  /\ isAuthLoading' = FALSE
  /\ authCalls' = [authCalls EXCEPT ![s] = NoCall]
  /\ UNCHANGED <<storeVars, probe, user, rUser, rPassword, session,
                 sessionLoaded, authEvents, authIssued>>

Logout(s) ==
  /\ authIssued < MaxAuthCalls
  /\ IsFreeAuthSlot(s)
  /\ authIssued' = authIssued + 1
  /\ isAuthLoading' = TRUE
  /\ authError' = NULL
  /\ authCalls' = [authCalls EXCEPT ![s] = [op |-> "logout", pc |-> "signOut"]]
  /\ UNCHANGED <<storeVars, probe, user, rUser, rPassword, session,
                 sessionLoaded, authEvents, authSettled, authLogged>>

\* auth.signOut()
SignOut(s, ok) ==
  /\ authCalls[s].pc = "signOut"
  /\ IF ok
     THEN /\ session' = NoUser
          /\ authEvents' = Append(authEvents, [session |-> NoUser])
          /\ authCalls' = [authCalls EXCEPT ![s].pc = "signedOut"]
     ELSE /\ authCalls' = [authCalls EXCEPT ![s].pc = "signOutError"]
          /\ UNCHANGED <<session, authEvents>>
  /\ UNCHANGED <<storeVars, probe, user, isAuthLoading, authError, rUser,
                 rPassword, sessionLoaded, authIssued, authSettled, authLogged>>

LogoutResume(s) ==
  /\ authCalls[s].op = "logout"
  /\ authCalls[s].pc \in {"signedOut", "signOutError"}
  /\ IF authCalls[s].pc = "signOutError"
     THEN /\ authLogged' = authLogged \cup {"Supabase logout error"}
          /\ authError' = RemoteError
     ELSE UNCHANGED <<authError, authLogged>>
  /\ isAuthLoading' = FALSE
  /\ authSettled' = Resolved("logout")
  /\ authCalls' = [authCalls EXCEPT ![s] = NoCall]
  /\ UNCHANGED <<storeVars, probe, user, rUser, rPassword, session,
                 sessionLoaded, authEvents, authIssued>>

\* !user?.email
NoEmail(u) == u = NoUser \/ u.email = NULL

ChangePassword(s, payload) ==
  /\ authIssued < MaxAuthCalls
  /\ IsFreeAuthSlot(s)
  /\ authIssued' = authIssued + 1
  /\ IF NoEmail(user)
     THEN /\ authSettled' = Rejected("changePassword",
                                     "Ce compte ne comporte pas de courriel.")
          /\ UNCHANGED authCalls
     ELSE /\ authCalls' = [authCalls EXCEPT ![s] =
               [op |-> "changePassword", pc |-> "signIn", email |-> user.email,
                password |-> payload.currentPassword,
                newPassword |-> payload.newPassword, data |-> NoUser]]
          /\ UNCHANGED authSettled
  /\ UNCHANGED <<storeVars, probe, user, isAuthLoading, authError, rUser,
                 rPassword, session, sessionLoaded, authEvents, authLogged>>

\* a changePassword that goes on to the update whatever the sign-in answered
ChangePasswordSignedInAnyway(s) ==
  /\ authCalls[s].op = "changePassword"
  /\ authCalls[s].pc \in {"signedIn", "signInError"}
  /\ authCalls' = [authCalls EXCEPT ![s].pc = "update"]
  /\ UNCHANGED <<storeVars, probe, user, isAuthLoading, authError, rUser,
                 rPassword, session, sessionLoaded, authEvents, authIssued,
                 authSettled, authLogged>>

\* changePassword after its first await: throw, or call auth.updateUser
ChangePasswordSignedIn(s) ==
  /\ authCalls[s].op = "changePassword"
  /\ authCalls[s].pc \in {"signedIn", "signInError"}
  /\ IF authCalls[s].pc = "signInError"
     THEN /\ authSettled' = Rejected("changePassword",
                                     "Mot de passe actuel incorrect.")
          /\ authCalls' = [authCalls EXCEPT ![s] = NoCall]
     ELSE /\ authCalls' = [authCalls EXCEPT ![s].pc = "update"]
          /\ UNCHANGED authSettled
  /\ UNCHANGED <<storeVars, probe, user, isAuthLoading, authError, rUser,
                 rPassword, session, sessionLoaded, authEvents, authIssued,
                 authLogged>>

\* the identity provider serves auth.updateUser({ password }); the call needs
\* a session
UpdateUser(s, reachable) ==
  /\ authCalls[s].pc = "update"
  /\ IF reachable /\ session # NoUser
     THEN LET updated == [rUser EXCEPT !.updated_at = @ + 1]
          IN /\ rPassword' = authCalls[s].newPassword
             /\ rUser' = updated
             /\ session' = updated
             /\ authEvents' = Append(authEvents, [session |-> updated])
             /\ authCalls' = [authCalls EXCEPT ![s].pc = "updated",
                                               ![s].data = updated]
     ELSE /\ authCalls' = [authCalls EXCEPT ![s].pc = "updateError"]
          /\ UNCHANGED <<rUser, rPassword, session, authEvents>>
  /\ UNCHANGED <<storeVars, probe, user, isAuthLoading, authError,
                 sessionLoaded, authIssued, authSettled, authLogged>>

ChangePasswordResume(s) ==
  /\ authCalls[s].op = "changePassword"
  /\ authCalls[s].pc \in {"updated", "updateError"}
  /\ IF authCalls[s].pc = "updateError"
     THEN /\ authSettled' = Rejected("changePassword", RemoteError)
          /\ UNCHANGED user
     ELSE /\ user' = authCalls[s].data
          /\ authSettled' = Resolved("changePassword")
  /\ authCalls' = [authCalls EXCEPT ![s] = NoCall]
  /\ UNCHANGED <<storeVars, probe, isAuthLoading, authError, rUser, rPassword,
                 session, sessionLoaded, authEvents, authIssued, authLogged>>

NextPassword ==
  \/ \E ok \in BOOLEAN : LoadSession(ok)
  \/ OnAuthStateChange
  \/ \E s \in Slots, e \in AccountEmails, p \in Passwords : Login(s, e, p)
  \/ \E s \in Slots, reachable \in BOOLEAN : SignInWithPassword(s, reachable)
  \/ \E s \in Slots : LoginResume(s)
  \/ \E s \in Slots : Logout(s)
  \/ \E s \in Slots, ok \in BOOLEAN : SignOut(s, ok)
  \/ \E s \in Slots : LogoutResume(s)
  \/ \E s \in Slots, p \in ChangePasswordPayloads : ChangePassword(s, p)
  \/ \E s \in Slots : ChangePasswordSignedIn(s)
  \/ \E s \in Slots, reachable \in BOOLEAN : UpdateUser(s, reachable)
  \/ \E s \in Slots : ChangePasswordResume(s)

\* the loaded store beside an AdminProvider that has just mounted
InitPassword == LoadedStore /\ probe = NoProbe /\ InitAdmin

SpecPassword == InitPassword /\ [][NextPassword]_vars

----------------------------------------------------------------------------
(* Properties of the deposit ledger *)

\* the balance the cache holds for a pair; a missing pair counts as 0
CachedBalance(c, t) ==
  LET own == {e \in Range(consignTotals) : e.clientId = c /\ e.typeId = t}
  IN IF own = {} THEN 0 ELSE (CHOOSE e \in own : TRUE).quantity

\* some sanitized item of the payload asks for more than the cached balance
AsksTooMuch(p) ==
  \E item \in Range(sanitizeConsignItems(p.items)) :
    item.quantity > CachedBalance(Trim(p.clientId), item.typeId)

\* the balances of a list of totals, as a set
Balances(totals) == Range(totals)

\* C1: a returnConsigns that asks, for some sanitized item, more than the
\* cached balance of (client, type) fails with an error, puts no request in
\* flight (so none of its rows is ever inserted), and leaves the remote
\* movement log and consignTotals as they were.
C1_ReturnRejectedInFull ==
  [][\A s \in Slots, p \in ConsignPayloads :
       (ReturnConsigns(s, p) /\ AsksTooMuch(p))
         => /\ settled'.op = "returnConsigns" /\ ~settled'.ok
            /\ calls' = calls
            /\ rMovements' = rMovements
            /\ consignTotals' = consignTotals]_vars

\* a return was refused for asking more than is outstanding
C1_Witness ==
  settled = Rejected("returnConsigns",
                     "Quantite retournee superieure aux consignes du client.")

\* C2: whenever no call is in flight, the cached consignTotals holds the
\* balances of the full fold over the remote movement log.
C2_CacheEqualsFold ==
  Quiescent
    => Balances(consignTotals) = Balances(buildConsignTotalsFromRows(rMovements))

\* C3: after any sequence of assignConsigns and returnConsigns calls,
\* overlapping or not, no balance is negative, neither in consignTotals nor
\* in the fold of the remote movement log.
C3_NoNegativeBalance ==
  /\ \A e \in Balances(consignTotals) : e.quantity >= 0
  /\ \A e \in Balances(buildConsignTotalsFromRows(rMovements)) : e.quantity >= 0

----------------------------------------------------------------------------
(* Properties of order creation *)

\* the call names a product that the catalog it closed over does not hold
NamesUnknownProduct(c) ==
  \E i \in 1..Len(c.payload.entries) :
    \A j \in 1..Len(c.catalog) : c.catalog[j].id # c.payload.entries[i].itemId

\* C4: an addOrder that names a product absent from the catalog fails before
\* any remote write: no order header of that call is ever in the orders table.
C4_UnknownProductNoRemoteWrite ==
  \A s \in Slots :
    (calls[s].op = "addOrder" /\ NamesUnknownProduct(calls[s]))
      => \A r \in Range(rOrders) : calls[s].order # <<r>>

\* C5: order creation is all-or-nothing: every order header of the remote
\* table has its line items, unless the addOrder that inserted it is still
\* in flight.
C5_NoHeaderWithoutLines ==
  \A r \in Range(rOrders) :
    \/ \E l \in Range(rOrderItems) : l.order_id = r.id
    \/ \E s \in Slots : calls[s].op = "addOrder" /\ calls[s].order = <<r>>

\* C6: addOrder with an empty entries list fails with the validation error,
\* puts no request in flight, and leaves the remote tables and the orders
\* collection as they were.
C6_EmptyOrderRejected ==
  [][\A s \in Slots, p \in OrderPayloads :
       (AddOrder(s, p) /\ p.entries = <<>>)
         => /\ settled' = Rejected("addOrder",
                                   "Impossible de creer une commande vide.")
            /\ calls' = calls
            /\ UNCHANGED remoteVars
            /\ orders' = orders]_vars

\* an empty order was refused
C6_Witness ==
  settled = Rejected("addOrder", "Impossible de creer une commande vide.")

\* C7: whenever no call and no fetch is in flight (after the initial load,
\* after successful or failed addOrder calls, after a fresh load following
\* them), every order of the in-memory orders collection has at least one
\* line entry.
C7_OrdersHaveEntries ==
  Quiescent => \A o \in Range(orders) : Len(o.entries) >= 1

----------------------------------------------------------------------------
(* Properties of the operations with a single remote write *)

SingleStepOps ==
  {"addItem", "updateItem", "removeItem", "updateOrderStatus", "removeOrder",
   "addClient", "addConsignType", "assignConsigns", "returnConsigns"}

\* C8: when the remote write of a single-step operation fails, the call is
\* rejected with that error and no in-memory collection changes; and a
\* collection changes only in the step that resumes a call after the
\* backend confirmed its write.
C8_FailureLeavesStateUntouched ==
  [][/\ \A s \in Slots :
          (calls[s].op \in SingleStepOps /\ calls[s].pc # "ok"
             /\ calls'[s].op = "idle")
            => /\ UNCHANGED localVars
               /\ settled' = Rejected(calls[s].op, RemoteError)
     /\ localVars' # localVars
          => \E s \in Slots : calls[s].pc = "ok" /\ calls'[s].op = "idle"]_vars

\* the remote write of a single-step operation failed after an earlier
\* operation had changed the collections
C8_Witness ==
  /\ settled.op \in SingleStepOps /\ settled.error = RemoteError
  /\ issued >= 2
  /\ clients # SeqMap(mapClientFromRow, InitClientRows)

----------------------------------------------------------------------------
(* Properties of the initial load *)

\* what a consumer of the store can see of an error: the context value holds
\* the five collections and the loading flag and no error field, so only the
\* rejection of a promise returned to a caller shows one
ObservableError == ~settled.ok

\* C9: a failed fetch of the initial load produces an error outcome that a
\* caller or a consumer of the store can observe.
C9_FailedFetchSurfaces ==
  (\E n \in FetchNames : fetches[n].pc = "failed") => ObservableError

\* C10: loading is never false while one of the five fetches is in flight.
C10_LoadingUntilAllSettled ==
  ~loading => \A n \in FetchNames : fetches[n].pc \in {"done", "failed"}

----------------------------------------------------------------------------
(* Properties of the cascading removals *)

\* C11: when one of the three remote steps of removeClient fails, the call
\* ends there with that step's error: no further request of the call is in
\* flight, the remote tables keep what the earlier steps did to them, and
\* clients, orders and consignTotals are not modified; removeClient touches
\* the local collections only when it resumes from its confirmed third step.
C11_RemoveClientAborts ==
  [][/\ \A s \in Slots :
          (calls[s].op = "removeClient" /\ calls[s].pc # "ok"
             /\ calls'[s].op = "idle")
            => /\ calls'[s] = NoCall
               /\ settled' = Rejected("removeClient", RemoteError)
               /\ UNCHANGED remoteVars
               /\ UNCHANGED <<clients, orders, consignTotals>>
     /\ \A s \in Slots :
          (calls[s].op = "removeClient" /\ calls'[s] # calls[s]
             /\ <<clients, orders>>' # <<clients, orders>>)
            => calls[s].step = 3 /\ calls[s].pc = "ok"]_vars

\* removeClient failed at its third step: the orders and movements of c1 are
\* already cleared remotely, c1 is still a remote and a local client
C11_Witness ==
  /\ settled = Rejected("removeClient", RemoteError)
  /\ \A r \in Range(rOrders) : r.client_id # "c1"
  /\ \A m \in Range(rMovements) : m.client_id # "c1"
  /\ \E r \in Range(rClients) : r.id = "c1"
  /\ \E c \in Range(clients) : c.id = "c1"
  /\ \E o \in Range(orders) : o.clientId = "c1"

\* the backend serves the request of step n of the removeClient of slot s
ServesRemoveClient(s, n) ==
  /\ calls[s].op = "removeClient" /\ calls[s].step = n
  /\ calls[s].pc = "sent" /\ calls'[s].pc = "ok"

\* list `after` is list `before` with the client reference c cleared
ClearedRef(before, after, c, ref, null) ==
  /\ Len(after) = Len(before)
  /\ \A i \in 1..Len(before) :
       after[i] = IF before[i][ref] = c
                  THEN [before[i] EXCEPT ![ref] = null]
                  ELSE before[i]

\* C12: when the three remote steps of removeClient(c) succeed: the first
\* clears the client reference of the orders of c and deletes no order, the
\* second removes the movements of c and no other, the third removes the
\* client row of c and no other; and when the call then resolves, no remote
\* order refers to c, no remote movement and no remote client row of c
\* exists, and locally the orders of c have a null client, c has no balance
\* and is no client, everything else being as it was.
C12_RemoveClientCascades ==
  [][\A s \in Slots :
       LET c == calls[s].clientId
       IN /\ ServesRemoveClient(s, 1)
               => /\ ClearedRef(rOrders, rOrders', c, "client_id", NULL)
                  /\ UNCHANGED <<rOrderItems, rMovements, rClients>>
          /\ ServesRemoveClient(s, 2)
               => /\ Range(rMovements')
                       = {m \in Range(rMovements) : m.client_id # c}
                  /\ UNCHANGED <<rOrders, rOrderItems, rClients>>
          /\ ServesRemoveClient(s, 3)
               => /\ Range(rClients') = {r \in Range(rClients) : r.id # c}
                  /\ UNCHANGED <<rOrders, rOrderItems, rMovements>>
          /\ (calls[s].op = "removeClient" /\ calls[s].step = 3
                /\ calls[s].pc = "ok" /\ calls'[s].op = "idle")
               => /\ settled' = Resolved("removeClient")
                  /\ \A r \in Range(rOrders') : r.client_id # c
                  /\ \A m \in Range(rMovements') : m.client_id # c
                  /\ \A r \in Range(rClients') : r.id # c
                  /\ ClearedRef(orders, orders', c, "clientId", NULL)
                  /\ Range(clients') = {x \in Range(clients) : x.id # c}
                  /\ Range(consignTotals')
                       = {e \in Range(consignTotals) : e.clientId # c}]_vars

\* removeClient(c1) resolved: the order of c1 is kept without its client
C12_Witness ==
  /\ settled = Resolved("removeClient")
  /\ \A r \in Range(rClients) : r.id # "c1"
  /\ \A x \in Range(clients) : x.id # "c1"
  /\ \E r \in Range(rOrders) : r.id = 1 /\ r.client_id = NULL
  /\ \E o \in Range(orders) : o.id = 1 /\ o.clientId = NULL
  /\ \A m \in Range(rMovements) : m.client_id # "c1"
  /\ \A e \in Range(consignTotals) : e.clientId # "c1"

----------------------------------------------------------------------------
(* Properties of the operations with several remote writes *)

MultiStepOps == {"addOrder", "removeClient", "removeConsignType"}

\* the remote tables other than the one that step n of operation op writes
TablesNotOf(op, n) ==
  CASE op = "addOrder" /\ n = 1 ->
         <<rItems, rOrderItems, rClients, rTypes, rMovements>>
    [] op = "addOrder" /\ n = 2 ->
         <<rItems, rOrders, rClients, rTypes, rMovements>>
    [] op = "removeClient" /\ n = 1 ->
         <<rItems, rOrderItems, rClients, rTypes, rMovements>>
    [] op = "removeClient" /\ n = 2 ->
         <<rItems, rOrders, rOrderItems, rClients, rTypes>>
    [] op = "removeClient" /\ n = 3 ->
         <<rItems, rOrders, rOrderItems, rTypes, rMovements>>
    [] op = "removeConsignType" /\ n = 1 ->
         <<rItems, rOrders, rOrderItems, rClients, rTypes>>
    [] op = "removeConsignType" /\ n = 2 ->
         <<rItems, rOrders, rOrderItems, rClients, rMovements>>
    [] OTHER -> <<>>

\* C13: a multi-step operation starts with its first request; it issues
\* request n + 1 only in the step that resumes from the confirmation of
\* request n; and the request the backend serves as step n writes the table
\* of that step only: orders then order_items for addOrder; orders,
\* consign_movements, clients for removeClient; consign_movements then
\* consign_types for removeConsignType.
C13_StepsInSequence ==
  [][\A s \in Slots :
       /\ (calls[s].op = "idle" /\ calls'[s].op \in MultiStepOps)
            => calls'[s].step = 1 /\ calls'[s].pc = "sent"
       /\ (calls[s].op \in MultiStepOps /\ calls'[s].op = calls[s].op
             /\ calls'[s].step # calls[s].step)
            => /\ calls[s].pc = "ok"
               /\ calls'[s].step = calls[s].step + 1
               /\ calls'[s].pc = "sent"
               /\ UNCHANGED remoteVars
       /\ (calls[s].op \in MultiStepOps /\ calls[s].pc = "sent"
             /\ calls'[s].pc = "ok")
            => /\ calls'[s].step = calls[s].step
               /\ TablesNotOf(calls[s].op, calls[s].step)'
                    = TablesNotOf(calls[s].op, calls[s].step)]_vars

\* a removeClient and an addOrder are both at their last step, each after
\* its earlier writes
C13_Witness ==
  /\ \E s \in Slots : /\ calls[s].op = "removeClient" /\ calls[s].step = 3
                       /\ \A m \in Range(rMovements) :
                            m.client_id # calls[s].clientId
  /\ \E s \in Slots : /\ calls[s].op = "addOrder" /\ calls[s].step = 2
                       /\ calls[s].order # <<>>
                       /\ calls[s].order[1] \in Range(rOrders)

----------------------------------------------------------------------------
(* Properties of order deletion *)

EarlyStatuses == {"nouvelle", "en_cours"}

\* C14: an order whose status is neither 'nouvelle' nor 'en_cours' is never
\* deleted: no step removes it from the remote orders table or from the
\* in-memory orders collection.
C14_DeleteOnlyEarlyOrders ==
  [][/\ \A r \in Range(rOrders) :
          r.status \notin EarlyStatuses
            => \E x \in Range(rOrders') : x.id = r.id
     /\ \A o \in Range(orders) :
          o.status \notin EarlyStatuses
            => \E x \in Range(orders') : x.id = o.id]_vars

----------------------------------------------------------------------------
(* Properties of the validation of deposit transactions *)

\* C15: assignConsigns and returnConsigns called with a client identifier
\* that is blank once trimmed, or with items that sanitize to the empty
\* list, are rejected with an error, put no insert in flight and change
\* neither the remote movement log nor consignTotals.
C15_BlankTransactionRejected ==
  [][\A s \in Slots, p \in ConsignPayloads, m \in {1, -1} :
       (/\ recordConsignMovements(s, p, m)
        /\ Trim(p.clientId) = "" \/ sanitizeConsignItems(p.items) = <<>>)
         => /\ settled'.op = OpName(m) /\ ~settled'.ok
            /\ settled'.error \in {"Selectionnez un client.",
                                   "Ajoutez au moins une consigne a traiter."}
            /\ calls' = calls
            /\ rMovements' = rMovements
            /\ consignTotals' = consignTotals]_vars

\* a transaction of a known client was refused for having no item left
C15_Witness ==
  /\ settled.op \in {"assignConsigns", "returnConsigns"}
  /\ settled.error = "Ajoutez au moins une consigne a traiter."

----------------------------------------------------------------------------
(* Properties of the pure functions of the ledger *)

\* the whole number a raw quantity floors to (finite quantities only)
Floored(q) == q.halves \div 2

\* entry i of the raw list counts: its type is not blank once trimmed and
\* its floored quantity is a finite positive integer
Counts(raw, i) ==
  /\ Trim(raw[i].typeId) # ""
  /\ raw[i].quantity.kind = "num"
  /\ Floored(raw[i].quantity) > 0

\* sum of the floored quantities of the entries of type t among the first n
RECURSIVE SumOfType(_, _, _)
SumOfType(raw, t, n) ==
  IF n = 0 THEN 0
  ELSE SumOfType(raw, t, n - 1)
       + (IF Counts(raw, n) /\ Trim(raw[n].typeId) = t
          THEN Floored(raw[n].quantity) ELSE 0)

\* index of the first entry of type t that counts
FirstOfType(raw, t) ==
  CHOOSE i \in 1..Len(raw) :
    /\ Counts(raw, i) /\ Trim(raw[i].typeId) = t
    /\ \A j \in 1..(i - 1) : ~(Counts(raw, j) /\ Trim(raw[j].typeId) = t)

\* C16: sanitizeConsignItems returns exactly one entry per trimmed non-blank
\* type that has an entry whose floored quantity is a finite positive
\* integer; its quantity is the sum of those floored quantities; the other
\* entries contribute nothing; the entries come in the order in which each
\* type first occurs among the entries that count.
C16_SanitizeMergesAndDrops ==
  (probe.fn = "sanitizeConsignItems" /\ probe.done)
    => LET raw == probe.arg[1]
           out == probe.out
       IN /\ {out[j].typeId : j \in 1..Len(out)}
               = {Trim(raw[i].typeId) : i \in {k \in 1..Len(raw) : Counts(raw, k)}}
          /\ \A j, k \in 1..Len(out) : out[j].typeId = out[k].typeId => j = k
          /\ \A j \in 1..Len(out) :
               out[j].quantity = SumOfType(raw, out[j].typeId, Len(raw))
          /\ \A j, k \in 1..Len(out) :
               j < k => FirstOfType(raw, out[j].typeId)
                          < FirstOfType(raw, out[k].typeId)

\* t2 (2) then t1 twice (1.5 unpadded, 2 padded): t2 first, t1 summed to 3
C16_Witness ==
  /\ probe.fn = "sanitizeConsignItems" /\ probe.done
  /\ probe.arg[1] = <<[typeId |-> "t2", quantity |-> Num(4)],
                      [typeId |-> "t1", quantity |-> Num(3)],
                      [typeId |-> " t1 ", quantity |-> Num(4)]>>
  /\ probe.out = <<[typeId |-> "t2", quantity |-> 2],
                   [typeId |-> "t1", quantity |-> 3]>>

\* C17: consignTotals never holds an entry whose quantity is 0 and never
\* holds two entries for one (client, type) pair, after a load and after
\* every confirmed transaction.
C17_NoZeroNoDuplicate ==
  /\ \A i \in 1..Len(consignTotals) : consignTotals[i].quantity # 0
  /\ \A i, j \in 1..Len(consignTotals) :
       (/\ consignTotals[i].clientId = consignTotals[j].clientId
        /\ consignTotals[i].typeId = consignTotals[j].typeId) => i = j

\* c1 returned all it held of t1: the log keeps the rows of (c1, t1), the
\* totals hold no entry for the pair
C17_Witness ==
  /\ settled = Resolved("returnConsigns")
  /\ \E m \in Range(rMovements) :
       m.client_id = "c1" /\ m.type_id = "t1" /\ m.quantity < 0
  /\ \A e \in Range(buildConsignTotalsFromRows(rMovements)) :
       ~(e.clientId = "c1" /\ e.typeId = "t1")
  /\ \A e \in Range(consignTotals) : ~(e.clientId = "c1" /\ e.typeId = "t1")
  /\ consignTotals # <<>>

\* C18: for a movement log L, a client c, a sanitized item list I and a
\* multiplier m, applyConsignDeltas(buildConsignTotalsFromRows(L), c, I, m)
\* holds the same balances as buildConsignTotalsFromRows applied to L
\* extended with the rows (c, item.typeId, item.quantity * m) of I.
C18_IncrementalEqualsFold ==
  (probe.fn = "applyConsignDeltas" /\ probe.done)
    => LET L == probe.arg[1]
           c == probe.arg[2]
           I == probe.arg[3]
           m == probe.arg[4]
           extended == L \o [i \in 1..Len(I) |->
                               Movement(c, I[i].typeId, I[i].quantity * m)]
       IN Balances(probe.out) = Balances(buildConsignTotalsFromRows(extended))

\* c1 holds 1 of t1 and owes nothing of t2; it returns 1 of t1 and 2 of t2:
\* the pair (c1, t1) disappears and (c1, t2) goes to -2
C18_Witness ==
  /\ probe.fn = "applyConsignDeltas" /\ probe.done
  /\ probe.arg = <<(<<Movement("c1", "t1", 1), Movement("c2", "t2", 1)>>), "c1",
                   (<<[typeId |-> "t1", quantity |-> 1],
                      [typeId |-> "t2", quantity |-> 2]>>), -1>>
  /\ Balances(probe.out) = {[clientId |-> "c2", typeId |-> "t2", quantity |-> 1],
                            [clientId |-> "c1", typeId |-> "t2", quantity |-> -2]}

\* sum of the quantities of the rows of the pair (c, t) among the first n
RECURSIVE SumOfPair(_, _, _, _)
SumOfPair(rows, c, t, n) ==
  IF n = 0 THEN 0
  ELSE SumOfPair(rows, c, t, n - 1)
       + (IF rows[n].client_id = c /\ rows[n].type_id = t
          THEN rows[n].quantity ELSE 0)

\* C19: buildConsignTotalsFromRows yields the same balances for a list of
\* movement rows and for every permutation of it; there is a balance for
\* each (client, type) pair whose rows do not sum to 0, and it is that sum.
C19_FoldOrderIndependent ==
  (probe.fn = "buildConsignTotalsFromRows" /\ probe.done)
    => LET rows == probe.arg[1]
           n == Len(rows)
       IN /\ \A pi \in Permutations(1..n) :
               Balances(buildConsignTotalsFromRows([i \in 1..n |-> rows[pi[i]]]))
                 = Balances(probe.out)
          /\ Balances(probe.out)
               = {[clientId |-> c, typeId |-> t,
                   quantity |-> SumOfPair(rows, c, t, n)] :
                    <<c, t>> \in {p \in ClientIds \X TypeIds :
                                   SumOfPair(rows, p[1], p[2], n) # 0}}

\* a log in which a return of c1 comes before the deposit it returns
C19_Witness ==
  /\ probe.fn = "buildConsignTotalsFromRows" /\ probe.done
  /\ probe.arg[1] = <<Movement("c1", "t1", -1), Movement("c2", "t2", 2),
                      Movement("c1", "t1", 2)>>
  /\ Balances(probe.out) = {[clientId |-> "c1", typeId |-> "t1", quantity |-> 1],
                            [clientId |-> "c2", typeId |-> "t2", quantity |-> 2]}

----------------------------------------------------------------------------
(* Properties of the line entries of orders *)

\* the values a line entry or a line-item row freezes
SnapshotOfEntry(e) == <<e.itemName, e.quantity, e.quantityType, e.unitPrice>>
SnapshotOfRow(l) == <<l.item_name, l.quantity, l.quantity_type, l.unit_price>>

\* C20: addOrder works on the catalog as it is when it is called; the order
\* it adds to the collection has one line entry per requested entry, with
\* the requested quantity and the name, quantity type and unit price that
\* the product had in that catalog; and no step of any operation changes the
\* entries of an order of the collection or the frozen values of a remote
\* line-item row.
C20_EntriesAreSnapshots ==
  [][/\ \A s \in Slots :
          (calls[s].op = "idle" /\ calls'[s].op = "addOrder")
            => calls'[s].catalog = items
     /\ \A s \in Slots :
          (calls[s].op = "addOrder" /\ calls[s].step = 2 /\ calls[s].pc = "ok"
             /\ calls'[s].op = "idle")
            => LET asked == calls[s].payload.entries
                   made == orders'[1].entries
               IN /\ Tail(orders') = orders
                  /\ Len(made) = Len(asked)
                  /\ \A i \in 1..Len(asked) :
                       \E it \in Range(calls[s].catalog) :
                         /\ it.id = asked[i].itemId
                         /\ made[i].itemId = it.id
                         /\ SnapshotOfEntry(made[i])
                              = <<it.name, asked[i].quantity,
                                  it.quantityType, it.price>>
     /\ \A o \in Range(orders) :
          \E x \in Range(orders') : x.id = o.id /\ x.entries = o.entries
     /\ \A l \in Range(rOrderItems) :
          \E x \in Range(rOrderItems') :
            x.id = l.id /\ SnapshotOfRow(x) = SnapshotOfRow(l)]_vars

\* an order created at 1000 for Brie is still at 1000 after the product was
\* repriced to 1200
C20_Witness ==
  /\ \E o \in Range(orders) :
       /\ o.id >= InitClock
       /\ Len(o.entries) = 1
       /\ o.entries[1].itemId = "i1"
       /\ SnapshotOfEntry(o.entries[1]) = <<"Brie", 20, "/kg", 1000>>
  /\ \E it \in Range(items) : it.id = "i1" /\ it.price = 1200
  /\ \E r \in Range(rItems) : r.id = "i1" /\ r.price = 1200

----------------------------------------------------------------------------
(* Properties of the ordering of the collections *)

\* C21: the orders collection is ordered by creation timestamp, newest
\* first, after the load and after every addOrder, overlapping or not.
C21_OrdersNewestFirst ==
  \A i, j \in 1..Len(orders) :
    i < j => orders[i].createdAt >= orders[j].createdAt

\* the list is in alphabetical order of names
SortedByName(list) ==
  \A i, j \in 1..Len(list) :
    i < j => NameRank(list[i].name) <= NameRank(list[j].name)

\* C22: addClient with a name that is blank once trimmed is rejected and
\* writes nothing; otherwise the row it sends holds the trimmed name and a
\* contact that is null when blank; the backend adds that one row; and after
\* every step of addClient and removeClient the clients collection is in
\* alphabetical order of names, holding the client of a resolved addClient
\* exactly once.
C22_AddClientTrimsAndSorts ==
  [][/\ \A s \in Slots, p \in ClientPayloads :
          AddClient(s, p)
            => IF Trim(p.name) = ""
               THEN /\ settled'.op = "addClient" /\ ~settled'.ok
                    /\ calls' = calls
                    /\ UNCHANGED <<remoteVars, clients>>
               ELSE /\ calls'[s].op = "addClient" /\ calls'[s].pc = "sent"
                    /\ calls'[s].row.name = Trim(p.name)
                    /\ calls'[s].row.contact
                         = (IF Trim(p.contact) = "" THEN NULL ELSE Trim(p.contact))
     /\ \A s \in Slots :
          (calls[s].op = "addClient" /\ calls[s].pc = "sent"
             /\ calls'[s].pc = "ok")
            => /\ Len(rClients') = Len(rClients) + 1
               /\ SubSeq(rClients', 1, Len(rClients)) = rClients
               /\ rClients'[Len(rClients')].name = calls[s].row.name
               /\ rClients'[Len(rClients')].contact = calls[s].row.contact
     /\ \A s \in Slots :
          (calls[s].op = "addClient" /\ calls[s].pc = "ok"
             /\ calls'[s].op = "idle")
            => /\ Cardinality({i \in 1..Len(clients') :
                                 clients'[i].id = calls[s].data.id}) = 1
               /\ Len(clients') = Len(clients) + 1
               /\ Range(clients) \subseteq Range(clients')
     /\ SortedByName(clients')]_vars

\* Bob, entered with blanks around the name and a blank contact, stands
\* between Alice and Zoe
C22_Witness ==
  /\ settled = Resolved("addClient")
  /\ Len(clients) = 3
  /\ clients[2].name = "Bob" /\ clients[2].contact = ""
  /\ \E r \in Range(rClients) : r.name = "Bob" /\ r.contact = NULL

----------------------------------------------------------------------------
(* Properties of the catalog *)

\* C23: every product of the items collection has a positive step and has
\* either no multiple or a positive multiple.
C23_StepAndMultiplePositive ==
  \A it \in Range(items) :
    /\ it.step # None /\ it.step[1] > 0
    /\ it.multipleOf = None \/ it.multipleOf[1] > 0

----------------------------------------------------------------------------
(* Properties of the quantity utilities *)

\* q / m is less than 1e-4 away from an integer, in exact arithmetic: with
\* q = Q * 2^e and m = M * 2^e, the remainder r of Q by M has
\* r * 10^4 < M or (M - r) * 10^4 < M
NearInteger(q, m) ==
  LET e == IF q.e < m.e THEN q.e ELSE m.e
      M == BigShl(m.m, m.e - e)
      r == BigDivMod(BigShl(q.m, q.e - e), M)[2]
  IN  \/ BigCmp(BigMul(r, BigOfNat(10^4)), M) < 0
      \/ BigCmp(BigMul(BigSub(M, r), BigOfNat(10^4)), M) < 0

Validated(item, display) ==
  /\ probe.fn = "validateQuantityMultiple" /\ probe.done
  /\ probe.arg = <<item, display>>

PerKgMultipleOne ==
  mapItemFromRow([id |-> "i1", name |-> "Brie", price |-> 1000,
                  quantity_type |-> "/kg", multiple_of |-> Some(10),
                  step |-> None])

\* C24: for a product with a configured multiple m, validateQuantityMultiple
\* returns no error exactly when the canonical quantity (toUnitQuantity of
\* the display quantity) divided by m is within 1e-4 of an integer; 1.5 kg of
\* a per-kg product with multiple 1 is rejected and 2 kg accepted; a product
\* without a multiple and a zero quantity are always accepted.
C24_MultipleOfCanonicalQuantity ==
  \A item \in MultipleItems, display \in DisplayQuantities :
    Validated(item, display) =>
      /\ ~NoMultiple(item) =>
            (probe.out = None <=>
               NearInteger(toUnitQuantity(item.quantityType, display),
                           MultipleOf(item)))
      /\ item.multipleOf = None \/ IsZero(display) => probe.out = None
      /\ item = PerKgMultipleOne /\ display = Dec(15, 1) => probe.out # None
      /\ item = PerKgMultipleOne /\ display = Dec(2, 0) => probe.out = None

\* 0.3 kg of a per-100g product with multiple 1 is accepted: its canonical
\* quantity is 2.9999999999999996
C24_Witness ==
  \E item \in MultipleItems :
    /\ Validated(item, Dec(3, 1))
    /\ item.quantityType = "/100g" /\ item.multipleOf = Some(10)
    /\ toUnitQuantity("/100g", Dec(3, 1)) # Dec(3, 0)
    /\ probe.out = None

Converted(qt, display) ==
  /\ probe.fn = "toUnitQuantity" /\ probe.done
  /\ probe.arg = <<qt, display>>

\* the factor of a quantity type other than per piece
FactorOf(qt) ==
  CASE qt = "/kg" -> Dec(1, 0)
    [] qt = "/100g" -> Dec(1, 1)
    [] qt = "/500g" -> Dec(5, 1)

\* per piece both converters are the identity, otherwise toUnitQuantity
\* divides by the factor and toDisplayQuantity multiplies by it; both return
\* 0 for a zero or non-finite input
ConvertsByFactor(qt, display) ==
  IF ~IsFinite(display) \/ IsZero(display)
    THEN probe.out = [unit |-> Zero, display |-> Zero]
  ELSE IF qt = "/pc"
    THEN probe.out = [unit |-> display, display |-> display]
  ELSE /\ probe.out.unit = FDiv(display, FactorOf(qt))
       /\ probe.out.display = FMul(probe.out.unit, FactorOf(qt))

\* |x - y| <= |y| * 2^-bits, in exact arithmetic
WithinRelative(x, y, bits) ==
  LET d == ExactSum(x, Negated(y))
      e == IF d.e + bits < y.e THEN d.e + bits ELSE y.e
  IN  BigCmp(BigShl(d.m, d.e + bits - e), BigShl(y.m, y.e - e)) <= 0

\* C25, as stated: the display quantity of the canonical quantity of every
\* non-negative finite display quantity q equals q, for every quantity type;
\* the converters are the identity per piece, divide and multiply by the
\* factor otherwise, and return 0 for a zero or non-finite input.
C25_RoundTripExact ==
  \A qt \in QuantityTypes, display \in DisplayQuantities :
    Converted(qt, display) =>
      /\ ConvertsByFactor(qt, display)
      /\ IsFinite(display) /\ ~display.neg => probe.out.display = display

\* C25, amended: the round trip returns q itself for the per-piece, per-kg
\* and per-500g types and a number within q * 2^-51 of q for the per-100g
\* type, whose factor 0.1 is no binary fraction; the rest as stated.
C25_RoundTripWithinRounding ==
  \A qt \in QuantityTypes, display \in DisplayQuantities :
    Converted(qt, display) =>
      /\ ConvertsByFactor(qt, display)
      /\ IsFinite(display) /\ ~display.neg =>
            IF qt = "/100g" THEN WithinRelative(probe.out.display, display, 51)
            ELSE probe.out.display = display

\* 1.7 kg of a per-100g product: 17 units, shown as 1.7000000000000002 kg
C25_Witness ==
  /\ Converted("/100g", Dec(17, 1))
  /\ probe.out.unit = Dec(17, 0)
  /\ probe.out.display # Dec(17, 1)
  /\ WithinRelative(probe.out.display, Dec(17, 1), 51)

----------------------------------------------------------------------------
(* Properties of the order totals *)

\* the rearrangements of a sequence
PermutationsOf(s) ==
  {[i \in 1..Len(s) |-> s[p[i]]] :
     p \in {f \in [1..Len(s) -> 1..Len(s)] :
              \A i, j \in 1..Len(s) : f[i] = f[j] => i = j}}

RECURSIVE SumOfLines(_, _)
SumOfLines(entries, n) ==
  IF n = 0 THEN Zero
  ELSE FAdd(SumOfLines(entries, n - 1),
            FMul(entries[n].quantity, entries[n].unitPrice))

TotalsComputed(entries) ==
  /\ probe.fn = "computeOrderFinancials" /\ probe.done
  /\ probe.arg = <<entries>>

\* productTotal, transportFee and grandTotal as the claim gives them
C26_TotalsAsStated ==
  \A l \in SeqsUpTo(FinancialEntries, MaxLen) :
    TotalsComputed(l) =>
      /\ probe.out.productTotal = SumOfLines(l, Len(l))
      /\ probe.out.transportFee = FromInt(1000 * Len(l))
      /\ probe.out.grandTotal = FAdd(probe.out.productTotal, probe.out.transportFee)

\* transportFee unchanged by a rearrangement and additive over a split
C26_FeeSymmetricAndAdditive ==
  \A l \in SeqsUpTo(FinancialEntries, MaxLen) :
    TotalsComputed(l) =>
      /\ \A p \in PermutationsOf(l) :
            computeOrderFinancials(p).transportFee = probe.out.transportFee
      /\ \A k \in 0..Len(l) :
            probe.out.transportFee =
              FAdd(computeOrderFinancials(SubSeq(l, 1, k)).transportFee,
                   computeOrderFinancials(SubSeq(l, k + 1, Len(l))).transportFee)

\* productTotal additive over a split
C26_TotalAdditive ==
  \A l \in SeqsUpTo(FinancialEntries, MaxLen) :
    TotalsComputed(l) =>
      \A k \in 0..Len(l) :
        probe.out.productTotal =
          FAdd(computeOrderFinancials(SubSeq(l, 1, k)).productTotal,
               computeOrderFinancials(SubSeq(l, k + 1, Len(l))).productTotal)

\* all three unchanged by a rearrangement
C26_TotalsSymmetric ==
  \A l \in SeqsUpTo(FinancialEntries, MaxLen) :
    TotalsComputed(l) =>
      \A p \in PermutationsOf(l) : computeOrderFinancials(p) = probe.out

\* C26: computeOrderFinancials returns productTotal = the sum over the line
\* entries of quantity * unitPrice, transportFee = 1000 * the number of line
\* entries and grandTotal = productTotal + transportFee; all three are
\* unchanged by a rearrangement of the entries, and productTotal and
\* transportFee are additive over a split of the entries.
C26_TotalsSymmetricAndAdditive ==
  /\ C26_TotalsAsStated
  /\ C26_FeeSymmetricAndAdditive
  /\ C26_TotalAdditive
  /\ C26_TotalsSymmetric

----------------------------------------------------------------------------
(* Properties of deposit transactions made one after the other *)

\* the balance a list of totals holds for a pair; a missing pair counts as 0
BalanceIn(totals, c, t) ==
  LET own == {e \in Range(totals) : e.clientId = c /\ e.typeId = t}
  IN IF own = {} THEN 0 ELSE (CHOOSE e \in own : TRUE).quantity

HoldsPair(totals, c, t) ==
  \E e \in Range(totals) : e.clientId = c /\ e.typeId = t

\* a return of q of type t by client c is called, in slot s
CallsReturn(s, c, t, q) ==
  \E p \in SequentialPayloads :
    /\ ReturnConsigns(s, p)
    /\ Trim(p.clientId) = c
    /\ sanitizeConsignItems(p.items) = <<[typeId |-> t, quantity |-> q]>>

\* the return of q of type t by client c in slot s is confirmed
ConfirmsReturn(s, c, t, q) ==
  /\ RecordConsignMovementsResume(s, TRUE)
  /\ calls[s].op = "returnConsigns" /\ calls[s].clientId = c
  /\ calls[s].items = <<[typeId |-> t, quantity |-> q]>>

\* the remote log after +5, return 3 of t1 by c2 and a third call that was
\* refused as a return of more than is outstanding
PlusFiveReturnThreeTwice ==
  /\ \E log \in InitMovementLogs :
       rMovements = log \o <<Movement("c2", "t1", 5), Movement("c2", "t1", -3)>>
  /\ issued = MaxCalls - MaxSequential + 3
  /\ settled = Rejected("returnConsigns",
                        "Quantite retournee superieure aux consignes du client.")

\* C27: for deposit transactions made one after the other on a pair with
\* outstanding balance b, a return of q <= b is accepted and, once confirmed,
\* leaves the balance b - q (no entry for the pair when q = b); a return of
\* more than the balance fails and leaves the balance as it is; after +5,
\* return 3, return 3 the balance is 2.
C27_SequentialReturns ==
  /\ [][\A s \in Slots, c \in ClientIds, t \in TypeIds, q \in 1..5 :
          LET b == BalanceIn(consignTotals, c, t)
          IN /\ CallsReturn(s, c, t, q) /\ q <= b =>
                  calls'[s].pc = "sent" /\ consignTotals' = consignTotals
             /\ ConfirmsReturn(s, c, t, q) =>
                  /\ q <= b
                  /\ settled' = Resolved("returnConsigns")
                  /\ BalanceIn(consignTotals', c, t) = b - q
                  /\ q = b => ~HoldsPair(consignTotals', c, t)
             /\ CallsReturn(s, c, t, q) /\ q > b =>
                  /\ ~settled'.ok /\ settled'.op = "returnConsigns"
                  /\ calls' = calls
                  /\ consignTotals' = consignTotals
                  /\ rMovements' = rMovements]_vars
  /\ [](PlusFiveReturnThreeTwice => BalanceIn(consignTotals, "c2", "t1") = 2)

\* +5, return 3 and a refused third call have happened
C27_Witness ==
  PlusFiveReturnThreeTwice /\ BalanceIn(consignTotals, "c2", "t1") = 2

----------------------------------------------------------------------------
(* Properties of status changes *)

\* C28: a successful updateOrderStatus(id, status) replaces only the status
\* of the order with that id: its other fields and entries, every other
\* order, the length and order of the collection and all other collections
\* are unchanged; when no order in memory has that id, orders is unchanged.
C28_StatusOnly ==
  [][\A s \in Slots :
       UpdateOrderStatusResume(s, TRUE) =>
         /\ Len(orders') = Len(orders)
         /\ \A i \in 1..Len(orders) :
              IF orders[i].id = calls[s].id
                THEN /\ orders'[i].status = calls[s].status
                     /\ \A f \in DOMAIN orders[i] \ {"status"} :
                          orders'[i][f] = orders[i][f]
                ELSE orders'[i] = orders[i]
         /\ (\A i \in 1..Len(orders) : orders[i].id # calls[s].id)
              => orders' = orders
         /\ UNCHANGED <<items, clients, consignTypes, consignTotals>>]_vars

\* the status of the older of two orders was changed
C28_Witness ==
  /\ settled = Resolved("updateOrderStatus")
  /\ Len(orders) = 2
  /\ orders[2].id = 1 /\ orders[2].status # "nouvelle"
  /\ orders[1].id # 1

----------------------------------------------------------------------------
(* Properties of the edits of the catalog *)

\* C29: a successful addItem appends the returned product at the end of
\* items and leaves the products already there as they are; a successful
\* updateItem(id, ...) replaces the product with that id in place, keeping
\* the length of the collection and the position of every product; a
\* successful removeItem(id) removes exactly the products with that id and
\* keeps the order of the rest.
C29_CatalogEdits ==
  [][\A s \in Slots :
       /\ AddItemResume(s, TRUE) =>
            /\ Len(items') = Len(items) + 1
            /\ \A i \in 1..Len(items) : items'[i] = items[i]
            /\ items'[Len(items')] = mapItemFromRow(calls[s].data)
       /\ UpdateItemResume(s, TRUE) =>
            /\ Len(items') = Len(items)
            /\ \A i \in 1..Len(items) :
                 /\ items'[i].id = items[i].id
                 /\ items[i].id # calls[s].id => items'[i] = items[i]
                 /\ items[i].id = calls[s].id =>
                      items'[i] = mapItemFromRow(calls[s].data)
       /\ RemoveItemResume(s, TRUE) =>
            /\ \A it \in Range(items') : it.id # calls[s].id
            /\ items' = SelectSeq(items, LAMBDA it : it.id # calls[s].id)]_vars

\* of three products the one in the middle was removed
C29_Witness ==
  /\ settled = Resolved("removeItem")
  /\ [i \in 1..Len(items) |-> items[i].id] = <<"i1", "i3">>

----------------------------------------------------------------------------
(* Properties of the removal of a deposit type *)

\* sequence `after` is sequence `before` without the elements whose field
\* f is v, the others in their order
Without(before, after, f, v) ==
  after = SelectSeq(before, LAMBDA e : e[f] # v)

----------------------------------------------------------------------------
(* Properties of the input step *)

\* the default step of a quantity type, in tenths: 1, 0.1, 1 and 0.5
DefaultStep(qt) ==
  CASE qt = "/pc" -> 10
    [] qt = "/kg" -> 1
    [] qt = "/100g" -> 10
    [] qt = "/500g" -> 5

\* a configured step that is positive is returned as it is
C31_PositiveStepKept ==
  \A it \in StepItems :
    (probe.fn = "inputStepFor" /\ probe.done /\ probe.arg = <<it>>
       /\ it.step # None /\ it.step[1] > 0)
      => probe.out = it.step[1]

\* C31: inputStepFor(item) returns the configured step of the item when it
\* is positive, and the default step of its quantity type (1 per piece, 0.1
\* per kg, 1 per 100 g, 0.5 per 500 g) when the step is absent, zero or
\* negative.
C31_StepOrDefault ==
  \A it \in StepItems :
    (probe.fn = "inputStepFor" /\ probe.done /\ probe.arg = <<it>>)
      => probe.out = IF it.step # None /\ it.step[1] > 0 THEN it.step[1]
                     ELSE DefaultStep(it.quantityType)

\* the step is returned when it is there, the default when it is absent
C31_StepUnlessAbsent ==
  \A it \in StepItems :
    (probe.fn = "inputStepFor" /\ probe.done /\ probe.arg = <<it>>)
      => probe.out = IF it.step # None THEN it.step[1]
                     ELSE DefaultStep(it.quantityType)

----------------------------------------------------------------------------
(* Properties of the validation of required fields *)

\* the call was refused with the message, nothing was sent and nothing changed
RefusedUntouched(op, message) ==
  /\ settled' = Rejected(op, message)
  /\ calls' = calls
  /\ UNCHANGED <<remoteVars, localVars>>

\* C32: addClient with a blank name, addConsignType with a blank label,
\* removeClient with a blank identifier and removeConsignType with a blank
\* identifier each raise an error, put no remote request in flight and leave
\* the remote tables and every collection in memory unchanged.
C32_RequiredFieldsChecked ==
  [][/\ \A s \in Slots, p \in ClientPayloads :
          (AddClient(s, p) /\ Trim(p.name) = "")
            => RefusedUntouched("addClient", "Le nom du client est obligatoire.")
     /\ \A s \in Slots, l \in TypeLabels :
          (AddConsignType(s, l) /\ Trim(l) = "")
            => RefusedUntouched("addConsignType",
                                "Le nom de la consigne est obligatoire.")
     /\ \A s \in Slots, id \in RawRemoveIds :
          (RemoveClient(s, id) /\ Trim(id) = "")
            => RefusedUntouched("removeClient", "Client introuvable.")
     /\ \A s \in Slots, id \in RawRemoveTypeIds :
          (RemoveConsignType(s, id) /\ Trim(id) = "")
            => RefusedUntouched("removeConsignType", "Type introuvable.")]_vars

\* a blank label was refused while another call was waiting for the remote
C32_Witness ==
  /\ settled = Rejected("addConsignType", "Le nom de la consigne est obligatoire.")
  /\ \E s \in Slots : calls[s].op # "idle"

----------------------------------------------------------------------------
(* Properties of the effect of one deposit transaction *)

\* the quantity the sanitized items hold for type t (0 when t is not among them)
QuantityOf(sanitized, t) ==
  LET own == {i \in 1..Len(sanitized) : sanitized[i].typeId = t}
  IN IF own = {} THEN 0 ELSE sanitized[CHOOSE i \in own : TRUE].quantity

\* the pairs a balance is held for before or after the step, and those of
\* the call
PairsAround(c, sanitized) ==
  {<<e.clientId, e.typeId>> : e \in Range(consignTotals) \cup Range(consignTotals')}
    \cup {<<c, item.typeId>> : item \in Range(sanitized)}

\* C33: a successful assignConsigns or returnConsigns for client c changes
\* the balance of each pair (c, t), t a type of the sanitized items, by
\* exactly +quantity (assign) or -quantity (return), leaves every other
\* balance and items, orders, clients and consignTypes unchanged; an assign
\* with a client and at least one sanitized item is sent whatever the
\* current balance.
C33_TransactionChangesOnlyItsBalances ==
  [][/\ \A s \in Slots :
          RecordConsignMovementsResume(s, TRUE)
            => /\ \A pair \in PairsAround(calls[s].clientId, calls[s].items) :
                    BalanceIn(consignTotals', pair[1], pair[2])
                      = BalanceIn(consignTotals, pair[1], pair[2])
                        + (IF pair[1] = calls[s].clientId
                           THEN calls[s].multiplier
                                  * QuantityOf(calls[s].items, pair[2])
                           ELSE 0)
               /\ UNCHANGED <<items, orders, clients, consignTypes>>
     /\ \A s \in Slots, p \in ConsignPayloads :
          (/\ AssignConsigns(s, p)
           /\ Trim(p.clientId) # ""
           /\ sanitizeConsignItems(p.items) # <<>>)
            => /\ calls'[s].op = "assignConsigns" /\ calls'[s].pc = "sent"
               /\ calls'[s].clientId = Trim(p.clientId)
               /\ calls'[s].items = sanitizeConsignItems(p.items)
               /\ calls'[s].multiplier = 1
               /\ settled' = settled]_vars

\* an assign to c1 went through on top of a balance of at least MaxQty, and
\* the balance of c2 is the one it had
C33_Witness ==
  /\ settled = Resolved("assignConsigns")
  /\ BalanceIn(consignTotals, "c1", "t1") > MaxQty
  /\ BalanceIn(consignTotals, "c1", "t2") > 0
  /\ BalanceIn(consignTotals, "c2", "t2") = 1

----------------------------------------------------------------------------
(* Properties of the remote movement log *)

\* log is old followed by at least one more row
Extends(old, log) ==
  /\ Len(log) > Len(old)
  /\ SubSeq(log, 1, Len(old)) = old

\* C34: the remote movement log is append-only: a step of the store leaves
\* it as it is, or adds rows at its end on behalf of an assignConsigns or a
\* returnConsigns, or removes from it exactly the rows of the client of a
\* removeClient or exactly the rows of the type of a removeConsignType; the
\* rows that stay are never modified.
C34_MovementLogAppendOnly ==
  [][\/ rMovements' = rMovements
     \/ /\ Extends(rMovements, rMovements')
        /\ \E s \in Slots : IsRecordCall(s)
     \/ \E s \in Slots :
          /\ calls[s].op = "removeClient"
          /\ rMovements' =
               SelectSeq(rMovements, LAMBDA m : m.client_id # calls[s].clientId)
     \/ \E s \in Slots :
          /\ calls[s].op = "removeConsignType"
          /\ rMovements' =
               SelectSeq(rMovements, LAMBDA m : m.type_id # calls[s].typeId)]_vars

\* a return was added to the log and the rows of type t2 were removed from it
C34_Witness ==
  /\ \E i \in 1..Len(rMovements) : rMovements[i].quantity < 0
  /\ \A i \in 1..Len(rMovements) : rMovements[i].type_id # "t2"
  /\ rMovements[1] = Movement("c1", "t1", MaxQty)

----------------------------------------------------------------------------
(* Properties of changePassword *)

\* call s is refused with the message; the stored user, the account and the
\* session are as before and no call has moved on
RefusedWithoutUpdate(s, message, after) ==
  /\ authSettled' = Rejected("changePassword", message)
  /\ authCalls' = [authCalls EXCEPT ![s] = after]
  /\ UNCHANGED <<user, rUser, rPassword, session>>

\* C35: changePassword sends the password update only after its sign-in with
\* the current password has succeeded; when the stored user has no email,
\* or when that sign-in fails, the call is refused with an error, no update
\* request is sent, and the stored user is unchanged.
C35_UpdateOnlyAfterReauthentication ==
  [][\A s \in Slots :
       /\ (authCalls'[s].pc = "update" /\ authCalls[s].pc # "update")
            => /\ authCalls[s].op = "changePassword"
               /\ authCalls[s].pc = "signedIn"
       /\ (authCalls'[s].pc = "signedIn" /\ authCalls[s].pc # "signedIn")
            => /\ rUser.email = authCalls[s].email
               /\ rPassword = authCalls[s].password
       /\ \A p \in ChangePasswordPayloads :
            (ChangePassword(s, p) /\ NoEmail(user))
              => RefusedWithoutUpdate(s, "Ce compte ne comporte pas de courriel.",
                                      authCalls[s])
       /\ (ChangePasswordSignedIn(s) /\ authCalls[s].pc = "signInError")
            => RefusedWithoutUpdate(s, "Mot de passe actuel incorrect.", NoCall)
       /\ rPassword' # rPassword
            => \E t \in Slots : /\ authCalls[t].pc = "update"
                                /\ authCalls'[t].pc = "updated"]_vars

\* the password was changed, and a later call that gave the old password was
\* refused while the user stayed signed in
C35_Witness ==
  /\ authSettled = Rejected("changePassword", "Mot de passe actuel incorrect.")
  /\ rPassword = "new"
  /\ user # NoUser
  /\ \A s \in Slots : authCalls[s].op = "idle"

----------------------------------------------------------------------------
(* Properties of overlapping deposit transactions *)

\* the balance of (c, t) in the remote movement log
LogBalance(c, t) == BalanceIn(buildConsignTotalsFromRows(rMovements), c, t)

\* call s is a transaction whose insert has succeeded and whose confirmation
\* has not arrived yet
Unconfirmed(s) == IsRecordCall(s) /\ calls[s].pc = "ok"

\* what the unconfirmed transactions of client c hold for type t
RECURSIVE UnconfirmedSum(_, _, _)
UnconfirmedSum(c, t, n) ==
  IF n = 0 THEN 0
  ELSE UnconfirmedSum(c, t, n - 1)
       + (IF Unconfirmed(n) /\ calls[n].clientId = c
          THEN calls[n].multiplier * QuantityOf(calls[n].items, t)
          ELSE 0)

\* C36: no update is lost between overlapping deposit transactions: the
\* cached balance of (c, t) plus the quantities of the transactions whose
\* insert has succeeded and whose confirmation is still to come equals the
\* balance of the remote log; so once two overlapping assignConsigns are
\* both confirmed, in either order, the cached balance is the previous one
\* plus both quantities.
C36_NoLostUpdate ==
  \A c \in ClientIds, t \in TypeIds :
    CachedBalance(c, t) + UnconfirmedSum(c, t, MaxInFlight) = LogBalance(c, t)

\* two assigns of t1 to c1 overlapped, both inserts succeeded, and the one
\* issued second was confirmed first
C36_Witness ==
  /\ Unconfirmed(1) /\ calls[1].op = "assignConsigns"
  /\ QuantityOf(calls[1].items, "t1") > 0
  /\ calls[2].op = "idle" /\ issued = 2
  /\ settled = Resolved("assignConsigns")
  /\ LogBalance("c1", "t1") = CachedBalance("c1", "t1") + QuantityOf(calls[1].items, "t1")
  /\ CachedBalance("c1", "t1") > MaxQty

----------------------------------------------------------------------------
(* Properties of writes made during the initial load *)

\* C37: a client that addClient has put in the clients collection stays in
\* it in every later state (no operation removes a client here), also when
\* addClient was called while the fetch of the clients was in flight.
C37_ConfirmedWriteKept ==
  [][\A id \in NewClientIds :
       (\E c \in Range(clients) : c.id = id)
         => \E c \in Range(clients') : c.id = id]_vars

----------------------------------------------------------------------------
(* Properties of a client removal that overlaps a deposit transaction *)

\* removeClient(c) has succeeded: c has left the clients collection
Removed(c) == \A x \in Range(clients) : x.id # c

NoMovementOf(c) == \A i \in 1..Len(rMovements) : rMovements[i].client_id # c

NoBalanceOf(c) == \A e \in Range(consignTotals) : e.clientId # c

\* C38: once removeClient(c) has succeeded, with no deposit transaction for
\* c issued afterwards, consignTotals holds no balance of c and the remote
\* log no movement of c, also when an assignConsigns for c issued before the
\* removal is confirmed after it.
C38_RemovedClientStaysGone ==
  \A c \in ClientIds : Removed(c) => NoBalanceOf(c) /\ NoMovementOf(c)

\* the same for the balances alone, when the remote log holds no movement of c
C38_NoBalanceWithoutMovement ==
  \A c \in ClientIds : (Removed(c) /\ NoMovementOf(c)) => NoBalanceOf(c)

----------------------------------------------------------------------------
(* Properties of the movement rows the store writes *)

\* the rows a step has added at the end of the remote log
AddedRows == SubSeq(rMovements', Len(rMovements) + 1, Len(rMovements'))

\* the rows are those of call s: one per sanitized item, of its client, of
\* distinct types, whole, not zero, and of the sign of its operation
RowsOfCall(rows, s) ==
  /\ Len(rows) = Len(calls[s].items)
  /\ \A i \in 1..Len(rows) :
       /\ rows[i].client_id = calls[s].clientId
       /\ rows[i].type_id = calls[s].items[i].typeId
       /\ rows[i].quantity \in Int /\ rows[i].quantity # 0
       /\ calls[s].op = "assignConsigns"
            => rows[i].quantity = calls[s].items[i].quantity /\ rows[i].quantity > 0
       /\ calls[s].op = "returnConsigns"
            => rows[i].quantity = 0 - calls[s].items[i].quantity /\ rows[i].quantity < 0
  /\ \A i, j \in 1..Len(rows) : rows[i].type_id = rows[j].type_id => i = j

\* C39: every movement row the store writes has a whole quantity that is not
\* zero, above zero for assignConsigns and below zero for returnConsigns;
\* a call writes one row for each distinct type of its sanitized items, all
\* with the trimmed client identifier of the call.
C39_RowsSignedAndDistinct ==
  [][/\ Len(rMovements') > Len(rMovements)
          => /\ Extends(rMovements, rMovements')
             /\ \E s \in Slots :
                  /\ IsRecordCall(s)
                  /\ calls[s].pc = "sent" /\ calls'[s].pc = "ok"
                  /\ RowsOfCall(AddedRows, s)
     /\ \A s \in Slots, p \in ConsignPayloads, k \in {1, -1} :
          (recordConsignMovements(s, p, k) /\ calls' # calls)
            => /\ calls'[s].op = OpName(k)
               /\ calls'[s].clientId = Trim(p.clientId)
               /\ calls'[s].clientId # ""
               /\ calls'[s].items = sanitizeConsignItems(p.items)
               /\ calls'[s].items # <<>>]_vars

\* the log holds the two rows of an assign of t1 and t2 to c1 and the row
\* of a return
C39_Witness ==
  /\ \E i \in 1..Len(rMovements) : rMovements[i].quantity < 0
  /\ \E i \in 1..Len(rMovements) :
       /\ i < Len(rMovements)
       /\ rMovements[i] = Movement("c1", "t1", 1)
       /\ rMovements[i + 1] = Movement("c1", "t2", 1)

====
